---- MODULE Spec2Model ----
(***************************************************************************)
(* A model of the compound cloud grid of                                   *)
(* src/microbe_stage/compound_cloud_system.cpp: the 3x3 tile window per    *)
(* compound group, its recentering / recycling, the neighbour links, the   *)
(* diffuse + advect solver and the add / take / query surface.             *)
(*                                                                         *)
(* Numbers.  World coordinates are floats in the source; the model uses    *)
(* whole world units.  A density is a float in the source; the model       *)
(* keeps it in fixed point, DENSITY_UNIT model units to 1.0.  A rate is a  *)
(* float; the model passes it in quarters (RATE_DEN).                      *)
(***************************************************************************)
EXTENDS Integers, Sequences, FiniteSets, TLC

(* ------------------------------ bounds -------------------------------- *)
\* The largest number of registered compound types (5 gives two groups).
MaxTypes == 5
\* Cells per tile and axis (50 in the game; the header is not part of src/).
CLOUD_SIMULATION_WIDTH == 3
CLOUD_SIMULATION_HEIGHT == 3
\* Fixed point resolution of a density: model units per 1.0.
DENSITY_UNIT == 1000
\* How many calls of each kind one behaviour of Spec makes.
MaxRuns == 2
MaxAdds == 1
MaxTakes == 1
\* How many calls of each kind one behaviour of SurfaceSpec makes.
MaxSurfaceRuns == 1
MaxSurfaceAdds == 2
MaxSurfaceTakes == 1
\* A behaviour ends with its MaxIdle-th call that changes no tile (a query,
\* a call that finds no tile, a Run without authority): the calls after it
\* would meet the tiles the behaviours without it meet.
MaxIdle == 1

(* ------------------------- program constants -------------------------- *)
CLOUDS_IN_ONE == 4
CLOUD_RESOLUTION == 2
NULL_COMPOUND == 0
TICKSPEED == 50
RENDER_TIME_DIVISOR == 10
DIFFUSE_RATE_NUM == 7
DIFFUSE_RATE_DEN == 1000
RATE_DEN == 4
nullptr == 0

\* Half extents of a tile in world units, and the distance between the
\* centers of adjacent tiles.
CLOUD_WIDTH == (CLOUD_SIMULATION_WIDTH * CLOUD_RESOLUTION) \div 2
CLOUD_HEIGHT == (CLOUD_SIMULATION_HEIGHT * CLOUD_RESOLUTION) \div 2
CLOUD_X_EXTENT == CLOUD_WIDTH * 2
CLOUD_Y_EXTENT == CLOUD_HEIGHT * 2

(* ----------------------------- arithmetic ----------------------------- *)
\* static_cast<int>(n / d) for d > 0: truncation toward zero.
StaticCastInt(n, d) == IF n >= 0 THEN n \div d ELSE -((-n) \div d)

\* std::round(n / d) for d > 0: to nearest, halves away from zero.
StdRound(n, d) ==
    IF n >= 0 THEN (2 * n + d) \div (2 * d) ELSE -((2 * (-n) + d) \div (2 * d))

\* std::clamp
StdClamp(v, lo, hi) == IF v < lo THEN lo ELSE IF hi < v THEN hi ELSE v

Xs == 0 .. (CLOUD_SIMULATION_WIDTH - 1)
Ys == 0 .. (CLOUD_SIMULATION_HEIGHT - 1)
Slots == 1 .. CLOUDS_IN_ONE

(* --------------------------- grid index math -------------------------- *)
\* Faulty variant: the upper X bound belongs to the tile too.
cloudContainsPosition_Closed(cloudPosition, worldPosition) ==
    ~(\/ worldPosition[1] < cloudPosition[1] - CLOUD_WIDTH
      \/ worldPosition[1] > cloudPosition[1] + CLOUD_WIDTH
      \/ worldPosition[2] < cloudPosition[2] - CLOUD_HEIGHT
      \/ worldPosition[2] >= cloudPosition[2] + CLOUD_HEIGHT)

\* A position is <<X, Z>> (Y is always 0 and is left out).
cloudContainsPosition(cloudPosition, worldPosition) ==
    ~(\/ worldPosition[1] < cloudPosition[1] - CLOUD_WIDTH
      \/ worldPosition[1] >= cloudPosition[1] + CLOUD_WIDTH
      \/ worldPosition[2] < cloudPosition[2] - CLOUD_HEIGHT
      \/ worldPosition[2] >= cloudPosition[2] + CLOUD_HEIGHT)

\* Faulty variant: the position is measured from the center of the tile.
convertWorldToCloudLocal_FromCenter(cloudPosition, worldPosition) ==
    LET localX == (worldPosition[1] - cloudPosition[1]) \div CLOUD_RESOLUTION
        localY == (worldPosition[2] - cloudPosition[2]) \div CLOUD_RESOLUTION
    IN  IF \/ localX < 0 \/ localX >= CLOUD_SIMULATION_WIDTH
           \/ localY < 0 \/ localY >= CLOUD_SIMULATION_HEIGHT
        THEN [ok |-> FALSE, x |-> 0, y |-> 0]
        ELSE [ok |-> TRUE, x |-> localX, y |-> localY]

\* Returns [ok, x, y]; ok = FALSE is the InvalidArgument exception.  A
\* negative floor converted to size_t is far above the width, so it throws.
convertWorldToCloudLocal(cloudPosition, worldPosition) ==
    LET relX == worldPosition[1] - (cloudPosition[1] - CLOUD_WIDTH)
        relZ == worldPosition[2] - (cloudPosition[2] - CLOUD_HEIGHT)
        localX == relX \div CLOUD_RESOLUTION
        localY == relZ \div CLOUD_RESOLUTION
    IN  IF \/ localX < 0 \/ localX >= CLOUD_SIMULATION_WIDTH
           \/ localY < 0 \/ localY >= CLOUD_SIMULATION_HEIGHT
        THEN [ok |-> FALSE, x |-> 0, y |-> 0]
        ELSE [ok |-> TRUE, x |-> localX, y |-> localY]

calculateGridCenterForPlayerPos(pos) ==
    << StdRound(pos[1], CLOUD_X_EXTENT) * CLOUD_X_EXTENT,
       StdRound(pos[2], CLOUD_Y_EXTENT) * CLOUD_Y_EXTENT >>

\* The window coordinates, the center first.
GridCoords ==
    << <<0, 0>>,
       <<-1, -1>>, <<0, -1>>, <<1, -1>>,
       <<-1, 0>>, <<1, 0>>,
       <<-1, 1>>, <<0, 1>>, <<1, 1>> >>

\* The 9 required positions around a center: pairs (window coordinate,
\* world position).
calculateGridPositions(center) ==
    [i \in 1 .. 9 |->
        [first |-> GridCoords[i],
         second |-> << center[1] + GridCoords[i][1] * CLOUD_X_EXTENT,
                       center[2] + GridCoords[i][2] * CLOUD_Y_EXTENT >>]]

(* ------------------------ CompoundCloudComponent ---------------------- *)
ZeroField == [x \in Xs |-> [y \in Ys |-> 0]]

\* One CloudData slot.
CloudData(id) == [id |-> id, density |-> ZeroField, oldDensity |-> ZeroField]

\* The constructor: the slots take the ids of the given compounds, a
\* missing compound leaves the slot at NULL_COMPOUND.
CompoundCloudComponent(ids) ==
    [m_position |-> <<0, 0>>,
     m_initialized |-> FALSE,
     clouds |-> [i \in Slots |-> CloudData(ids[i])],
     m_upperCloud |-> nullptr,
     m_lowerCloud |-> nullptr,
     m_leftCloud |-> nullptr,
     m_rightCloud |-> nullptr]

handlesCompound(cloud, compound) ==
    \E i \in Slots : compound = cloud.clouds[i].id

\* The first slot with the id; 0 stands for the runtime_error thrown
\* when no slot has it.
getSlotForCompound(cloud, compound) ==
    LET found == {i \in Slots : compound = cloud.clouds[i].id}
    IN  IF found = {} THEN 0
        ELSE CHOOSE i \in found : \A j \in found : i <= j

\* Component operations return the component after the call, the value
\* the call returns and whether getSlotForCompound threw.
Thrown(cloud) == [cloud |-> cloud, ret |-> 0, threw |-> TRUE]

\* Faulty variant: the amount replaces the density of the cell.
Component_addCloud_Assigns(cloud, compound, dens, x, y) ==
    LET slot == getSlotForCompound(cloud, compound)
    IN  IF slot = 0 THEN Thrown(cloud)
        ELSE [cloud |-> [cloud EXCEPT !.clouds[slot].density[x][y] = dens],
              ret |-> TRUE, threw |-> FALSE]

Component_addCloud(cloud, compound, dens, x, y) ==
    LET slot == getSlotForCompound(cloud, compound)
    IN  IF slot = 0 THEN Thrown(cloud)
        ELSE [cloud |-> [cloud EXCEPT !.clouds[slot].density[x][y] = @ + dens],
              ret |-> TRUE, threw |-> FALSE]

\* Faulty variant: a rest below 1 stays in the cell.
Component_takeCompound_NoSnap(cloud, compound, x, y, rate) ==
    LET slot == getSlotForCompound(cloud, compound)
        d == cloud.clouds[slot].density[x][y]
        amountToGive == StaticCastInt(d * rate, DENSITY_UNIT * RATE_DEN)
    IN  IF slot = 0 THEN Thrown(cloud)
        ELSE [cloud |-> [cloud EXCEPT !.clouds[slot].density[x][y] =
                            d - amountToGive * DENSITY_UNIT],
              ret |-> amountToGive, threw |-> FALSE]

\* Faulty variant: the amount is rounded up instead of truncated.
Component_takeCompound_RoundsUp(cloud, compound, x, y, rate) ==
    LET slot == getSlotForCompound(cloud, compound)
        d == cloud.clouds[slot].density[x][y]
        amountToGive == StaticCastInt(d * rate + DENSITY_UNIT * RATE_DEN - 1,
                            DENSITY_UNIT * RATE_DEN)
        left == d - amountToGive * DENSITY_UNIT
    IN  IF slot = 0 THEN Thrown(cloud)
        ELSE [cloud |-> [cloud EXCEPT !.clouds[slot].density[x][y] =
                            IF left < DENSITY_UNIT THEN 0 ELSE left],
              ret |-> amountToGive, threw |-> FALSE]

\* rate is given in RATE_DEN-ths; the amount is in whole units.
Component_takeCompound(cloud, compound, x, y, rate) ==
    LET slot == getSlotForCompound(cloud, compound)
        d == cloud.clouds[slot].density[x][y]
        amountToGive == StaticCastInt(d * rate, DENSITY_UNIT * RATE_DEN)
        left == d - amountToGive * DENSITY_UNIT
    IN  IF slot = 0 THEN Thrown(cloud)
        ELSE [cloud |-> [cloud EXCEPT !.clouds[slot].density[x][y] =
                            IF left < DENSITY_UNIT THEN 0 ELSE left],
              ret |-> amountToGive, threw |-> FALSE]

\* Faulty variant: the amount is taken out of the cell.
Component_amountAvailable_Takes(cloud, compound, x, y, rate) ==
    Component_takeCompound(cloud, compound, x, y, rate)

Component_amountAvailable(cloud, compound, x, y, rate) ==
    LET slot == getSlotForCompound(cloud, compound)
    IN  IF slot = 0 THEN Thrown(cloud)
        ELSE [cloud |-> cloud,
              ret |-> StaticCastInt(cloud.clouds[slot].density[x][y] * rate,
                                    DENSITY_UNIT * RATE_DEN),
              threw |-> FALSE]

RECURSIVE getCompoundsAtFrom(_, _, _, _, _)
getCompoundsAtFrom(cloud, x, y, result, i) ==
    IF i > CLOUDS_IN_ONE THEN result
    ELSE LET cloudData == cloud.clouds[i]
             amount == cloudData.density[x][y]
         IN  getCompoundsAtFrom(cloud, x, y,
                 IF cloudData.id # NULL_COMPOUND /\ amount > 0
                 THEN Append(result, <<cloudData.id, amount>>)
                 ELSE result,
                 i + 1)

\* Faulty variant: the slots are not tested for the empty sentinel.
RECURSIVE getCompoundsAtFrom_AnySlot(_, _, _, _, _)
getCompoundsAtFrom_AnySlot(cloud, x, y, result, i) ==
    IF i > CLOUDS_IN_ONE THEN result
    ELSE LET cloudData == cloud.clouds[i]
             amount == cloudData.density[x][y]
         IN  getCompoundsAtFrom_AnySlot(cloud, x, y,
                 IF amount > 0
                 THEN Append(result, <<cloudData.id, amount>>)
                 ELSE result,
                 i + 1)

getCompoundsAt_AnySlot(cloud, x, y, result) ==
    [cloud |-> cloud, ret |-> getCompoundsAtFrom_AnySlot(cloud, x, y, result, 1)]

\* Appends to result; the component is not changed.
getCompoundsAt(cloud, x, y, result) ==
    [cloud |-> cloud, ret |-> getCompoundsAtFrom(cloud, x, y, result, 1)]

\* Faulty variant: the tile is reset but stays where it is.
recycleToPosition_KeepsPosition(cloud, newPosition) ==
    [cloud EXCEPT
        !.clouds = [i \in Slots |->
            IF cloud.clouds[i].id # NULL_COMPOUND
            THEN [cloud.clouds[i] EXCEPT !.density = ZeroField,
                                         !.oldDensity = ZeroField]
            ELSE cloud.clouds[i]]]

\* Faulty variant: the slots are made anew and lose their compound ids.
recycleToPosition_NewSlots(cloud, newPosition) ==
    [cloud EXCEPT
        !.m_position = newPosition,
        !.clouds = [i \in Slots |-> CloudData(NULL_COMPOUND)]]

\* Faulty variant: the history buffer is not reset.
recycleToPosition_KeepsHistory(cloud, newPosition) ==
    [cloud EXCEPT
        !.m_position = newPosition,
        !.clouds = [i \in Slots |->
            IF cloud.clouds[i].id # NULL_COMPOUND
            THEN [cloud.clouds[i] EXCEPT !.density = ZeroField]
            ELSE cloud.clouds[i]]]

recycleToPosition(cloud, newPosition) ==
    [cloud EXCEPT
        !.m_position = newPosition,
        !.clouds = [i \in Slots |->
            IF cloud.clouds[i].id # NULL_COMPOUND
            THEN [cloud.clouds[i] EXCEPT !.density = ZeroField,
                                         !.oldDensity = ZeroField]
            ELSE cloud.clouds[i]]]

(* --------------------------- the solver ------------------------------- *)
\* Velocities are in VELOCITY_DEN-ths of a cell per time unit.
VELOCITY_DEN == 10

\* The compound registry entry of an id (SimulationParameters).
Compound(id) == [id |-> id, viscosity |-> 1]

\* FluidSystem::getVelocityAt: the field is an input of the tick; the model
\* takes it uniform over the world.
getVelocityAt(fluidSystem, worldPos) == fluidSystem

\* The value diffuse reads above / below / left of / right of cell (x, y):
\* the own history buffer inside the field, the linked tile's border cell
\* at the edge, 0 without a link.  old is the history buffer of the tile
\* as written so far by the running pass.
upperDensity(clouds, cloudComponent, old, slot, x, y) ==
    IF y > 0 THEN old[x][y - 1]
    ELSE IF cloudComponent.m_upperCloud # nullptr
    THEN clouds[cloudComponent.m_upperCloud].clouds[slot]
             .oldDensity[x][CLOUD_SIMULATION_HEIGHT - 1]
    ELSE 0

lowerDensity(clouds, cloudComponent, old, slot, x, y) ==
    IF y < CLOUD_SIMULATION_HEIGHT - 1 THEN old[x][y + 1]
    ELSE IF cloudComponent.m_lowerCloud # nullptr
    THEN clouds[cloudComponent.m_lowerCloud].clouds[slot].oldDensity[x][0]
    ELSE 0

leftDensity(clouds, cloudComponent, old, slot, x, y) ==
    IF x > 0 THEN old[x - 1][y]
    ELSE IF cloudComponent.m_leftCloud # nullptr
    THEN clouds[cloudComponent.m_leftCloud].clouds[slot]
             .oldDensity[CLOUD_SIMULATION_WIDTH - 1][y]
    ELSE 0

rightDensity(clouds, cloudComponent, old, slot, x, y) ==
    IF x < CLOUD_SIMULATION_WIDTH - 1 THEN old[x + 1][y]
    ELSE IF cloudComponent.m_rightCloud # nullptr
    THEN clouds[cloudComponent.m_rightCloud].clouds[slot].oldDensity[0][y]
    ELSE 0

\* One cell of the pass: density * (1 - a) + (up + down + left + right) * a / 4
\* with a = dt * diffRate = aNum / DIFFUSE_RATE_DEN.
diffuseCell(clouds, cloudComponent, old, slot, x, y, aNum) ==
    (cloudComponent.clouds[slot].density[x][y] * (DIFFUSE_RATE_DEN - aNum) * 4
       + (upperDensity(clouds, cloudComponent, old, slot, x, y)
          + lowerDensity(clouds, cloudComponent, old, slot, x, y)
          + leftDensity(clouds, cloudComponent, old, slot, x, y)
          + rightDensity(clouds, cloudComponent, old, slot, x, y)) * aNum)
    \div (4 * DIFFUSE_RATE_DEN)

\* The cells in loop order: x outer, y inner.
RECURSIVE diffuseFrom(_, _, _, _, _, _)
diffuseFrom(clouds, cloudComponent, old, slot, aNum, k) ==
    IF k >= CLOUD_SIMULATION_WIDTH * CLOUD_SIMULATION_HEIGHT THEN old
    ELSE LET x == k \div CLOUD_SIMULATION_HEIGHT
             y == k % CLOUD_SIMULATION_HEIGHT
         IN  diffuseFrom(clouds, cloudComponent,
                 [old EXCEPT ![x][y] =
                     diffuseCell(clouds, cloudComponent, old, slot, x, y, aNum)],
                 slot, aNum, k + 1)

\* diffuse(diffRate, cloudComponent, slot, dt) on tile e of clouds; diffRate
\* is diffRateNum / DIFFUSE_RATE_DEN.
diffuse(diffRateNum, clouds, e, slot, dt) ==
    [clouds EXCEPT ![e].clouds[slot].oldDensity =
        diffuseFrom(clouds, clouds[e], @, slot, dt * diffRateNum, 0)]

\* Faulty variant: the Y axis is resolved through the tile the deposit was
\* made on, not through the tile the X axis gave.
addCloudDensity_YFromOrigin(clouds, e, slot, x, y, value) ==
    LET xComponent == IF x < 0 THEN clouds[e].m_leftCloud
                      ELSE IF x >= CLOUD_SIMULATION_WIDTH
                      THEN clouds[e].m_rightCloud
                      ELSE e
        nx == IF x < 0 THEN CLOUD_SIMULATION_WIDTH - 1
              ELSE IF x >= CLOUD_SIMULATION_WIDTH THEN 0 ELSE x
    IN  IF xComponent = nullptr THEN clouds
        ELSE LET yComponent == IF y < 0 THEN clouds[e].m_upperCloud
                               ELSE IF y >= CLOUD_SIMULATION_HEIGHT
                               THEN clouds[e].m_lowerCloud
                               ELSE xComponent
                 ny == IF y < 0 THEN CLOUD_SIMULATION_HEIGHT - 1
                       ELSE IF y >= CLOUD_SIMULATION_HEIGHT THEN 0 ELSE y
             IN  IF yComponent = nullptr THEN clouds
                 ELSE [clouds EXCEPT
                          ![yComponent].clouds[slot].density[nx][ny] = @ + value]

addCloudDensity(clouds, e, slot, x, y, value) ==
    LET xComponent == IF x < 0 THEN clouds[e].m_leftCloud
                      ELSE IF x >= CLOUD_SIMULATION_WIDTH
                      THEN clouds[e].m_rightCloud
                      ELSE e
        nx == IF x < 0 THEN CLOUD_SIMULATION_WIDTH - 1
              ELSE IF x >= CLOUD_SIMULATION_WIDTH THEN 0 ELSE x
    IN  IF xComponent = nullptr THEN clouds
        ELSE LET yComponent == IF y < 0 THEN clouds[xComponent].m_upperCloud
                               ELSE IF y >= CLOUD_SIMULATION_HEIGHT
                               THEN clouds[xComponent].m_lowerCloud
                               ELSE xComponent
                 ny == IF y < 0 THEN CLOUD_SIMULATION_HEIGHT - 1
                       ELSE IF y >= CLOUD_SIMULATION_HEIGHT THEN 0 ELSE y
             IN  IF yComponent = nullptr THEN clouds
                 ELSE [clouds EXCEPT
                          ![yComponent].clouds[slot].density[nx][ny] = @ + value]

\* The world position at which advect samples the velocity for cell (x, y).
advectSamplePos(pos, x, y) ==
    << pos[1] + x * CLOUD_RESOLUTION, pos[2] + y * CLOUD_RESOLUTION >>

\* Faulty variant: the moved position is not clamped to the field.
advectTarget_NoClamp(c, dt, v, size) == c * VELOCITY_DEN + dt * v

\* The clamped position the content of a cell is moved to along one axis,
\* in VELOCITY_DEN-ths of a cell; v is the velocity over the viscosity.
advectTarget(c, dt, v, size) ==
    StdClamp(c * VELOCITY_DEN + dt * v, VELOCITY_DEN \div 2,
        ((2 * size - 3) * VELOCITY_DEN) \div 2)

\* The four deposits of one cell: old weighted by s0|s1 and t0|t1.
advectDeposit(clouds, e, slot, old, x0, y0, s1, t1) ==
    addCloudDensity(
        addCloudDensity(
            addCloudDensity(
                addCloudDensity(clouds, e, slot, x0, y0,
                    (old * (VELOCITY_DEN - s1) * (VELOCITY_DEN - t1))
                        \div (VELOCITY_DEN * VELOCITY_DEN)),
                e, slot, x0, y0 + 1,
                (old * (VELOCITY_DEN - s1) * t1)
                    \div (VELOCITY_DEN * VELOCITY_DEN)),
            e, slot, x0 + 1, y0,
            (old * s1 * (VELOCITY_DEN - t1)) \div (VELOCITY_DEN * VELOCITY_DEN)),
        e, slot, x0 + 1, y0 + 1,
        (old * s1 * t1) \div (VELOCITY_DEN * VELOCITY_DEN))

\* Faulty variant: the fraction is dropped, all goes to cell (x0, y0).
advectTo_WholeCell(clouds, e, slot, old, dx, dy) ==
    advectDeposit(clouds, e, slot, old,
        StaticCastInt(dx, VELOCITY_DEN), StaticCastInt(dy, VELOCITY_DEN), 0, 0)

\* The split of the moved position (dx, dy) into cell and fraction.
advectTo(clouds, e, slot, old, dx, dy) ==
    advectDeposit(clouds, e, slot, old,
        StaticCastInt(dx, VELOCITY_DEN), StaticCastInt(dy, VELOCITY_DEN),
        dx - StaticCastInt(dx, VELOCITY_DEN) * VELOCITY_DEN,
        dy - StaticCastInt(dy, VELOCITY_DEN) * VELOCITY_DEN)

\* The move of one cell by the sampled velocity.
advectBy(clouds, e, slot, dt, x, y, sample, viscosity) ==
    advectTo(clouds, e, slot, clouds[e].clouds[slot].oldDensity[x][y],
        advectTarget(x, dt, sample[1] \div viscosity, CLOUD_SIMULATION_WIDTH),
        advectTarget(y, dt, sample[2] \div viscosity, CLOUD_SIMULATION_HEIGHT))

\* One cell of advect's second loop.
advectCell(clouds, e, slot, dt, fluidSystem, pos, x, y) ==
    IF clouds[e].clouds[slot].oldDensity[x][y] > DENSITY_UNIT
    THEN advectBy(clouds, e, slot, dt, x, y,
             getVelocityAt(fluidSystem, advectSamplePos(pos, x, y)),
             Compound(clouds[e].clouds[slot].id).viscosity)
    ELSE clouds

\* (The test on clouds has the tiles of one cell evaluated before the next
\* cell is taken.)
RECURSIVE advectFrom(_, _, _, _, _, _, _)
advectFrom(clouds, e, slot, dt, fluidSystem, pos, k) ==
    IF k >= CLOUD_SIMULATION_WIDTH * CLOUD_SIMULATION_HEIGHT \/ clouds = << >>
    THEN clouds
    ELSE advectFrom(
             advectCell(clouds, e, slot, dt, fluidSystem, pos,
                 k \div CLOUD_SIMULATION_HEIGHT, k % CLOUD_SIMULATION_HEIGHT),
             e, slot, dt, fluidSystem, pos, k + 1)

\* Faulty variant: the density buffer is not emptied before the deposits.
advect_KeepsDensity(clouds, e, slot, dt, fluidSystem, pos) ==
    advectFrom(clouds, e, slot, dt, fluidSystem, pos, 0)

advect(clouds, e, slot, dt, fluidSystem, pos) ==
    advectFrom([clouds EXCEPT ![e].clouds[slot].density = ZeroField],
               e, slot, dt, fluidSystem, pos, 0)

RECURSIVE processCloudFrom(_, _, _, _, _)
processCloudFrom(clouds, e, dt, fluidSystem, slot) ==
    IF slot > CLOUDS_IN_ONE THEN clouds
    ELSE processCloudFrom(
             IF clouds[e].clouds[slot].id # NULL_COMPOUND
             THEN advect(diffuse(DIFFUSE_RATE_NUM, clouds, e, slot, dt),
                         e, slot, dt, fluidSystem, clouds[e].m_position)
             ELSE clouds,
             e, dt, fluidSystem, slot + 1)

\* Faulty variant: each populated slot is advected before it is diffused.
RECURSIVE processCloudFrom_AdvectFirst(_, _, _, _, _)
processCloudFrom_AdvectFirst(clouds, e, dt, fluidSystem, slot) ==
    IF slot > CLOUDS_IN_ONE THEN clouds
    ELSE processCloudFrom_AdvectFirst(
             IF clouds[e].clouds[slot].id # NULL_COMPOUND
             THEN diffuse(DIFFUSE_RATE_NUM,
                      advect(clouds, e, slot, dt, fluidSystem,
                             clouds[e].m_position),
                      e, slot, dt)
             ELSE clouds,
             e, dt, fluidSystem, slot + 1)

processCloud_AdvectFirst(clouds, e, renderTime, fluidSystem) ==
    processCloudFrom_AdvectFirst(clouds, e,
        renderTime \div RENDER_TIME_DIVISOR, fluidSystem, 1)

processCloud(clouds, e, renderTime, fluidSystem) ==
    processCloudFrom(clouds, e, renderTime \div RENDER_TIME_DIVISOR,
                     fluidSystem, 1)

(* ------------------------- CompoundCloudSystem ------------------------ *)
VARIABLES
    m_cloudTypes,        \* the registered compounds, a sequence
    m_managedClouds,     \* entity id -> component; iterated by ascending id
    m_cloudGridCenter,   \* <<X, Z>>
    m_tooFarAwayClouds,  \* the stray list kept between calls
    fatal,               \* a LOG_FATAL of the recycling has been written
    crashed,             \* the process has died (null dereference, assertion)
    call,                \* the last call of the public surface and its result
    nRun, nAdd, nTake,   \* calls made so far
    nIdle                \* calls made so far that left every tile as it was

vars == << m_cloudTypes, m_managedClouds, m_cloudGridCenter,
           m_tooFarAwayClouds, fatal, crashed, call, nRun, nAdd, nTake,
           nIdle >>

Entities(clouds) == DOMAIN clouds

\* Group of a tile: the id of its first slot.
GroupOf(cloud) == cloud.clouds[1].id

Min(S) == CHOOSE a \in S : \A b \in S : a <= b

\* m_managedClouds[entity] = &cloud
ManageCloud(clouds, entity, cloud) ==
    [e \in (DOMAIN clouds) \cup {entity} |->
        IF e = entity THEN cloud ELSE clouds[e]]

\* initializeCloud without graphics: the buffers of the populated slots
\* are zeroed and the tile is marked initialized.
initializeCloud(cloud) ==
    [cloud EXCEPT
        !.m_initialized = TRUE,
        !.clouds = [i \in Slots |->
            IF cloud.clouds[i].id # NULL_COMPOUND
            THEN [cloud.clouds[i] EXCEPT !.density = ZeroField,
                                         !.oldDensity = ZeroField]
            ELSE cloud.clouds[i]]]

\* _spawnCloud(world, pos, startIndex): startIndex counts from 0.
spawnCloud(clouds, cloudTypes, pos, startIndex) ==
    LET entity == Cardinality(DOMAIN clouds) + 1
        aux == [i \in Slots |->
                   IF startIndex + i <= Len(cloudTypes)
                   THEN cloudTypes[startIndex + i].id
                   ELSE NULL_COMPOUND]
        cloud == [CompoundCloudComponent(aux) EXCEPT !.m_position = pos]
    IN  ManageCloud(clouds, entity, initializeCloud(cloud))

\* The entries of the local map clouds of applyNewCloudPositioning are
\* records [key |-> <<Int2, CompoundId>>, comp |-> entity].
MapSet(map, key, comp) ==
    {m \in map : m.key # key} \cup {[key |-> key, comp |-> comp]}

MapHas(map, key) == \E m \in map : m.key = key

\* operator[] of the map: the tile stored under key, or the nullptr it
\* inserts under a key the map does not hold.
MapGet(map, key) ==
    IF MapHas(map, key) THEN (CHOOSE m \in map : m.key = key).comp ELSE nullptr

\* Faulty variant: the keys name the first group whatever the tile's group.
LinkKeys_FirstGroup(tile, groupId) ==
    [upper |-> << <<tile[1], tile[2] - 1>>, 1 >>,
     lower |-> << <<tile[1], tile[2] + 1>>, 1 >>,
     left  |-> << <<tile[1], tile[2] - 1>>, 1 >>,
     right |-> << <<tile[1], tile[2] + 1>>, 1 >>]

\* The keys setUpCloudLinks looks up for the tile at window coordinate tile.
LinkKeys(tile, groupId) ==
    [upper |-> << <<tile[1], tile[2] - 1>>, groupId >>,
     lower |-> << <<tile[1], tile[2] + 1>>, groupId >>,
     left  |-> << <<tile[1], tile[2] - 1>>, groupId >>,
     right |-> << <<tile[1], tile[2] + 1>>, groupId >>]

\* The links setUpCloudLinks gives the tile stored under index.
LinksOf(map, index) ==
    LET tile == index[1]
        k == LinkKeys(tile, index[2])
    IN  [upper |-> IF tile[2] = -1 THEN nullptr ELSE MapGet(map, k.upper),
         lower |-> IF tile[2] = 1 THEN nullptr ELSE MapGet(map, k.lower),
         left  |-> IF tile[1] = -1 THEN nullptr ELSE MapGet(map, k.left),
         right |-> IF tile[1] = 1 THEN nullptr ELSE MapGet(map, k.right)]

\* The keys operator[] inserts while the loop runs over the map.
InsertedKeys(map) ==
    UNION { LET tile == m.key[1]
                k == LinkKeys(tile, m.key[2])
            IN  {key \in ( (IF tile[2] = -1 THEN {} ELSE {k.upper})
                           \cup (IF tile[2] = 1 THEN {} ELSE {k.lower})
                           \cup (IF tile[1] = -1 THEN {} ELSE {k.left})
                           \cup (IF tile[1] = 1 THEN {} ELSE {k.right}) ) :
                    ~MapHas(map, key)}
          : m \in map }

\* setUpCloudLinks over the entries the map holds when the loop starts.
\* Returns the tiles and the keys the loop inserted into the map.
setUpCloudLinks(clouds, map) ==
    [clouds |->
        [e \in DOMAIN clouds |->
            IF \E m \in map : m.comp = e
            THEN LET m == CHOOSE n \in map : n.comp = e
                     l == LinksOf(map, m.key)
                 IN  [clouds[e] EXCEPT !.m_upperCloud = l.upper,
                                       !.m_lowerCloud = l.lower,
                                       !.m_leftCloud = l.left,
                                       !.m_rightCloud = l.right]
            ELSE clouds[e]],
     inserted |-> InsertedKeys(map)]

\* Index of the first required position the position matches, 0 if none
\* (HAddAbs < EPSILON is equality on whole world units).
MatchIndex(pos, requiredCloudPositions) ==
    IF \E i \in 1 .. 9 : requiredCloudPositions[i].second = pos
    THEN Min({i \in 1 .. 9 : requiredCloudPositions[i].second = pos})
    ELSE 0

\* First loop of applyNewCloudPositioning: every tile is entered into the
\* map or into the stray list.  st = [clouds, far, farAwayIndex, map,
\* fatal, recycled].
RECURSIVE ScanClouds(_, _, _)
ScanClouds(st, req, e) ==
    IF e > Cardinality(DOMAIN st.clouds) THEN st
    ELSE LET cloudComponent == st.clouds[e]
             i == MatchIndex(cloudComponent.m_position, req)
         IN  IF i # 0
             THEN ScanClouds(
                      [st EXCEPT !.map = MapSet(@,
                          <<req[i].first, GroupOf(cloudComponent)>>, e)],
                      req, e + 1)
             ELSE IF st.farAwayIndex >= Len(st.far)
             THEN [st EXCEPT !.fatal = TRUE]
             ELSE ScanClouds(
                      [st EXCEPT !.far[st.farAwayIndex + 1] = e,
                                 !.farAwayIndex = @ + 1],
                      req, e + 1)

\* Index into the stray list of the first stray of the group, 0 if none.
FindStray(st, groupType) ==
    LET cand == {k \in 1 .. st.farAwayIndex :
                    /\ st.far[k] # nullptr
                    /\ GroupOf(st.clouds[st.far[k]]) = groupType}
    IN  IF cand = {} THEN 0 ELSE Min(cand)

\* The loop over the required positions for one group.
RECURSIVE FillPositions(_, _, _, _)
FillPositions(st, req, groupType, i) ==
    IF i > 9 THEN st
    ELSE LET hasCloud ==
                 \E e \in DOMAIN st.clouds :
                    /\ st.clouds[e].m_position = req[i].second
                    /\ GroupOf(st.clouds[e]) = groupType
             k == FindStray(st, groupType)
         IN  IF hasCloud THEN FillPositions(st, req, groupType, i + 1)
             ELSE IF k = 0 THEN [st EXCEPT !.fatal = TRUE]
             ELSE FillPositions(
                      [st EXCEPT
                          !.clouds[st.far[k]] =
                              recycleToPosition(@, req[i].second),
                          !.map = MapSet(@,
                              <<req[i].first, GroupOf(st.clouds[st.far[k]])>>,
                              st.far[k]),
                          !.far[k] = nullptr,
                          !.recycled = @ \cup {st.far[k]}],
                      req, groupType, i + 1)

\* The loop over the groups; c counts from 0 in steps of CLOUDS_IN_ONE.
RECURSIVE FillGroups(_, _, _, _)
FillGroups(st, req, cloudTypes, c) ==
    IF c >= Len(cloudTypes) THEN st
    ELSE FillGroups(FillPositions(st, req, cloudTypes[c + 1].id, 1),
                    req, cloudTypes, c + CLOUDS_IN_ONE)

\* Faulty variant: the stray list is one entry short of MAX_FAR_CLOUDS.
ScanStart_ShortList(clouds, tooFarAwayClouds) ==
    [clouds |-> clouds,
     far |-> [k \in 1 .. (Cardinality(DOMAIN clouds) - 1) |->
                 IF k <= Len(tooFarAwayClouds)
                 THEN tooFarAwayClouds[k] ELSE nullptr],
     farAwayIndex |-> 0, map |-> {}, fatal |-> FALSE, recycled |-> {}]

\* The state the first loop starts from: the stray list resized to
\* MAX_FAR_CLOUDS, nothing in the map.
ScanStart(clouds, tooFarAwayClouds) ==
    [clouds |-> clouds,
     far |-> [k \in 1 .. Cardinality(DOMAIN clouds) |->
                 IF k <= Len(tooFarAwayClouds)
                 THEN tooFarAwayClouds[k] ELSE nullptr],
     farAwayIndex |-> 0, map |-> {}, fatal |-> FALSE, recycled |-> {}]

\* The end of applyNewCloudPositioning: the check for strays left over
\* and the result of setUpCloudLinks.
PositioningResult(filled, linked) ==
    [clouds |-> linked.clouds,
     far |-> filled.far,
     fatal |-> filled.fatal
                  \/ \E k \in 1 .. filled.farAwayIndex : filled.far[k] # nullptr,
     recycled |-> filled.recycled,
     unlinked |-> filled.clouds,
     inserted |-> linked.inserted]

LinkFilled(filled) ==
    PositioningResult(filled, setUpCloudLinks(filled.clouds, filled.map))

PositionAround(clouds, cloudTypes, req, tooFarAwayClouds) ==
    LinkFilled(FillGroups(ScanClouds(ScanStart(clouds, tooFarAwayClouds), req, 1),
                   req, cloudTypes, 0))

\* Faulty variant: every tile is reset before the positions are compared.
applyNewCloudPositioning_ResetsAll(clouds, cloudTypes, gridCenter, tooFarAwayClouds) ==
    PositionAround(
        [e \in DOMAIN clouds |->
            recycleToPosition(clouds[e], clouds[e].m_position)],
        cloudTypes, calculateGridPositions(gridCenter), tooFarAwayClouds)

\* Returns [clouds, far, fatal, recycled, unlinked, inserted]: unlinked is
\* the tiles as they are when setUpCloudLinks is entered.
applyNewCloudPositioning(clouds, cloudTypes, gridCenter, tooFarAwayClouds) ==
    PositionAround(clouds, cloudTypes, calculateGridPositions(gridCenter),
        tooFarAwayClouds)

\* Initial spawning: one tile per group and required position.
RECURSIVE SpawnAll(_, _, _, _, _)
SpawnAll(clouds, cloudTypes, req, c, i) ==
    IF c >= Len(cloudTypes) THEN clouds
    ELSE IF i > 9 THEN SpawnAll(clouds, cloudTypes, req, c + CLOUDS_IN_ONE, 1)
    ELSE SpawnAll(spawnCloud(clouds, cloudTypes, req[i].second, c),
                  cloudTypes, req, c, i + 1)

\* The number of tiles the assertion of doSpawnCycle asks for.
ExpectedCloudCount(cloudTypes) ==
    (((((Len(cloudTypes) + 4 - 1) \div 4) * 4) \div 4) * 9)

\* Faulty variant: every tick repositions.
CenterChanged_Always(gridCenter, targetCenter) == TRUE

\* The test that starts a repositioning.
CenterChanged(gridCenter, targetCenter) == gridCenter # targetCenter

\* The result of doSpawnCycle from those of its two positionings.
SpawnCycleResult(first, second, center, repositioned, asserted) ==
    [clouds |-> second.clouds,
     center |-> center,
     far |-> second.far,
     fatal |-> first.fatal \/ second.fatal,
     recycled |-> first.recycled \cup second.recycled,
     unlinked |-> second.unlinked,
     inserted |-> first.inserted \cup second.inserted,
     repositioned |-> repositioned,
     asserted |-> asserted]

\* The part of doSpawnCycle after the assertion: moved says whether the
\* center changes.
Recenter(first, cloudTypes, initial, center0, targetCenter, moved, asserted) ==
    SpawnCycleResult(first,
        IF moved
        THEN applyNewCloudPositioning(first.clouds, cloudTypes, targetCenter,
                 first.far)
        ELSE first,
        IF moved THEN targetCenter ELSE center0,
        initial \/ moved, asserted)

\* The assertion on the number of tiles and the test of the center.
CheckedCycle(first, cloudTypes, initial, center0, targetCenter, asserted) ==
    Recenter(first, cloudTypes, initial, center0, targetCenter,
        ~asserted /\ CenterChanged(center0, targetCenter), asserted)

SpawnCycleFrom(first, cloudTypes, initial, center0, playerPos) ==
    CheckedCycle(first, cloudTypes, initial, center0,
        calculateGridCenterForPlayerPos(playerPos),
        Cardinality(DOMAIN first.clouds) # ExpectedCloudCount(cloudTypes))

\* Returns [clouds, center, far, fatal, recycled, unlinked, inserted,
\* repositioned, asserted]; asserted is the failed LEVIATHAN_ASSERT.
doSpawnCycle(clouds, cloudTypes, gridCenter, tooFarAwayClouds, playerPos) ==
    IF DOMAIN clouds = {}
    THEN SpawnCycleFrom(
             applyNewCloudPositioning(
                 SpawnAll(clouds, cloudTypes,
                     calculateGridPositions(<<0, 0>>), 0, 1),
                 cloudTypes, <<0, 0>>, tooFarAwayClouds),
             cloudTypes, TRUE, <<0, 0>>, playerPos)
    ELSE SpawnCycleFrom(
             [clouds |-> clouds, far |-> tooFarAwayClouds, fatal |-> FALSE,
              recycled |-> {}, unlinked |-> clouds, inserted |-> {}],
             cloudTypes, FALSE, gridCenter, playerPos)

\* The loop of Run over the tiles.
RECURSIVE ProcessClouds(_, _, _, _)
ProcessClouds(clouds, renderTime, fluidSystem, e) ==
    IF e > Cardinality(DOMAIN clouds) THEN clouds
    ELSE ProcessClouds(processCloud(clouds, e, renderTime, fluidSystem),
                       renderTime, fluidSystem, e + 1)

\* The first tile, in iteration order, that contains the position and
\* handles the compound; nullptr if there is none.
FindCloud(clouds, compound, worldPosition) ==
    LET hits == {e \in DOMAIN clouds :
                    /\ cloudContainsPosition(clouds[e].m_position, worldPosition)
                    /\ handlesCompound(clouds[e], compound)}
    IN  IF hits = {} THEN nullptr ELSE Min(hits)

\* The density the tile e holds for the compound at the cell of the
\* position, before a call.
DensityAt(clouds, e, compound, worldPosition) ==
    LET l == convertWorldToCloudLocal(clouds[e].m_position, worldPosition)
    IN  clouds[e].clouds[getSlotForCompound(clouds[e], compound)]
            .density[l.x][l.y]

\* The public calls return [clouds, ret, hit, threw]: the tiles after the
\* call, the returned value, the tile the call found and whether an
\* exception left the call (only InvalidArgument is caught).
System_addCloud(clouds, compound, density, worldPosition) ==
    LET e == FindCloud(clouds, compound, worldPosition)
        l == convertWorldToCloudLocal(clouds[e].m_position, worldPosition)
        r == Component_addCloud(clouds[e], compound, density, l.x, l.y)
    IN  IF e = nullptr
        THEN [clouds |-> clouds, ret |-> FALSE, hit |-> nullptr, threw |-> FALSE]
        ELSE IF ~l.ok
        THEN [clouds |-> clouds, ret |-> FALSE, hit |-> e, threw |-> FALSE]
        ELSE [clouds |-> [clouds EXCEPT ![e] = r.cloud], ret |-> r.ret,
              hit |-> e, threw |-> r.threw]

\* Faulty variant: a containing tile of another group is not skipped.
System_takeCompound_NoTypeSkip(clouds, compound, worldPosition, rate) ==
    LET hits == {h \in DOMAIN clouds :
                    cloudContainsPosition(clouds[h].m_position, worldPosition)}
        e == IF hits = {} THEN nullptr ELSE Min(hits)
        l == convertWorldToCloudLocal(clouds[e].m_position, worldPosition)
        r == Component_takeCompound(clouds[e], compound, l.x, l.y, rate)
    IN  IF e = nullptr
        THEN [clouds |-> clouds, ret |-> 0, hit |-> nullptr, threw |-> FALSE]
        ELSE IF ~l.ok
        THEN [clouds |-> clouds, ret |-> 0, hit |-> e, threw |-> FALSE]
        ELSE [clouds |-> [clouds EXCEPT ![e] = r.cloud], ret |-> r.ret,
              hit |-> e, threw |-> r.threw]

System_takeCompound(clouds, compound, worldPosition, rate) ==
    LET e == FindCloud(clouds, compound, worldPosition)
        l == convertWorldToCloudLocal(clouds[e].m_position, worldPosition)
        r == Component_takeCompound(clouds[e], compound, l.x, l.y, rate)
    IN  IF e = nullptr
        THEN [clouds |-> clouds, ret |-> 0, hit |-> nullptr, threw |-> FALSE]
        ELSE IF ~l.ok
        THEN [clouds |-> clouds, ret |-> 0, hit |-> e, threw |-> FALSE]
        ELSE [clouds |-> [clouds EXCEPT ![e] = r.cloud], ret |-> r.ret,
              hit |-> e, threw |-> r.threw]

System_amountAvailable(clouds, compound, worldPosition, rate) ==
    LET e == FindCloud(clouds, compound, worldPosition)
        l == convertWorldToCloudLocal(clouds[e].m_position, worldPosition)
        r == Component_amountAvailable(clouds[e], compound, l.x, l.y, rate)
    IN  IF e = nullptr
        THEN [clouds |-> clouds, ret |-> 0, hit |-> nullptr, threw |-> FALSE]
        ELSE IF ~l.ok
        THEN [clouds |-> clouds, ret |-> 0, hit |-> e, threw |-> FALSE]
        ELSE [clouds |-> [clouds EXCEPT ![e] = r.cloud], ret |-> r.ret,
              hit |-> e, threw |-> r.threw]

RECURSIVE getAllAvailableAtFrom(_, _, _, _)
getAllAvailableAtFrom(clouds, worldPosition, result, e) ==
    IF e > Cardinality(DOMAIN clouds)
    THEN [clouds |-> clouds, ret |-> result, threw |-> FALSE]
    ELSE LET pos == clouds[e].m_position
             l == convertWorldToCloudLocal(pos, worldPosition)
             r == getCompoundsAt(clouds[e], l.x, l.y, result)
         IN  IF cloudContainsPosition(pos, worldPosition) /\ l.ok
             THEN getAllAvailableAtFrom([clouds EXCEPT ![e] = r.cloud],
                      worldPosition, r.ret, e + 1)
             ELSE getAllAvailableAtFrom(clouds, worldPosition, result, e + 1)

System_getAllAvailableAt(clouds, worldPosition) ==
    getAllAvailableAtFrom(clouds, worldPosition, <<>>, 1)

(* ------------------------------- inputs ------------------------------- *)
TypeCounts == {1, MaxTypes}

\* Observer positions: the origin, a point off the lattice, three extents
\* away on X, on the positive and on the negative half extent, one extent
\* away on Z.
PlayerPositions ==
    { <<0, 0>>, <<1, -1>>, <<3 * CLOUD_X_EXTENT, 0>>, <<CLOUD_WIDTH, 0>>,
      <<-CLOUD_WIDTH, -CLOUD_HEIGHT>>, <<0, CLOUD_Y_EXTENT>> }

\* World points of the calls: inside the center tile, on a tile boundary
\* (the tile right of the center one), in the top row of the upper left
\* tile, in the window three extents away (outside the first window).
WorldPoints ==
    { <<0, 0>>, <<CLOUD_WIDTH, -1>>,
      <<-CLOUD_X_EXTENT, -CLOUD_Y_EXTENT - CLOUD_HEIGHT>>,
      <<3 * CLOUD_X_EXTENT, 0>> }

\* Compound ids of the calls: registered ones, the empty sentinel and an
\* id that is not registered.
RegisteredIds == {m_cloudTypes[i].id : i \in 1 .. Len(m_cloudTypes)}
CompoundIds == {1, Len(m_cloudTypes), NULL_COMPOUND, Len(m_cloudTypes) + 1}

\* Amounts added: 100, 0.5 and -2.5.
Amounts == {100 * DENSITY_UNIT, DENSITY_UNIT \div 2, -((5 * DENSITY_UNIT) \div 2)}

\* Rates in RATE_DEN-ths: 0.5, 1.0 and 1.5.
Rates == {RATE_DEN \div 2, RATE_DEN, (3 * RATE_DEN) \div 2}

\* Velocity fields of a tick.
Velocities == { <<0, 0>>, <<1, -3>> }

(* ------------------------------- actions ------------------------------ *)
NoCall == [op |-> "none"]

Init ==
    /\ m_cloudTypes = <<>>
    /\ m_managedClouds = <<>>
    /\ m_cloudGridCenter = <<0, 0>>
    /\ m_tooFarAwayClouds = <<>>
    /\ fatal = FALSE
    /\ crashed = FALSE
    /\ call = NoCall
    /\ nRun = 0
    /\ nAdd = 0
    /\ nTake = 0
    /\ nIdle = 0

Registered == m_cloudTypes # <<>>

\* The program is running and may be called.
Callable == Registered /\ ~crashed /\ nIdle < MaxIdle

\* Whether the map loop of setUpCloudLinks runs into an entry it inserted
\* itself (a null tile) depends on the hash table: both outcomes happen.
LinkOutcomes(r) ==
    IF r.inserted # {} THEN {"linked", "nullDeref"} ELSE {"linked"}

registerCloudTypes(n) ==
    /\ ~Registered
    /\ ~crashed
    /\ \E types \in {[i \in 1 .. n |-> Compound(i)]} :
         \E r \in {doSpawnCycle(m_managedClouds, types, m_cloudGridCenter,
                       m_tooFarAwayClouds, <<0, 0>>)} :
           /\ m_cloudTypes' = types
           /\ m_cloudGridCenter' = r.center
           /\ m_tooFarAwayClouds' = r.far
           /\ fatal' = (fatal \/ r.fatal)
           /\ \E outcome \in LinkOutcomes(r) :
                /\ crashed' = (outcome = "nullDeref" \/ r.asserted)
                /\ m_managedClouds' =
                       IF outcome = "nullDeref" THEN r.unlinked ELSE r.clouds
           /\ call' = [op |-> "registerCloudTypes", n |-> n]
    /\ UNCHANGED << nRun, nAdd, nTake, nIdle >>

\* Every cell of both buffers of every populated slot is 0.
BuffersZero(cloud) ==
    \A i \in Slots :
        cloud.clouds[i].id # NULL_COMPOUND =>
            /\ cloud.clouds[i].density = ZeroField
            /\ cloud.clouds[i].oldDensity = ZeroField

\* Faulty variant: Run does not return early on a world that is not
\* authoritative.
IsAuthoritative_Always(isAuthoritative) == TRUE

\* The test Run starts with: only an authoritative world is simulated.
IsAuthoritative(isAuthoritative) == isAuthoritative

\* The call record of an authoritative Run also notes what the
\* repositioning did: the tiles that were at no required position of the
\* new window when Run was entered (stray), the tiles recycleToPosition
\* was called on (recycled) and those of them whose buffers were all 0
\* when doSpawnCycle returned, before the solver ran (resetAtRelocation).
Run(isAuthoritative, playerPos, fluidSystem) ==
    /\ Callable
    /\ nRun' = nRun + 1
    /\ IF ~IsAuthoritative(isAuthoritative)
       THEN /\ call' = [op |-> "Run", authoritative |-> FALSE,
                        playerPos |-> playerPos,
                        fluidSystem |-> fluidSystem]
            /\ nIdle' = nIdle + 1
            /\ UNCHANGED << m_cloudTypes, m_managedClouds, m_cloudGridCenter,
                            m_tooFarAwayClouds, fatal, crashed >>
       ELSE \E r \in {doSpawnCycle(m_managedClouds, m_cloudTypes,
                         m_cloudGridCenter, m_tooFarAwayClouds, playerPos)} :
                /\ m_cloudGridCenter' = r.center
                /\ m_tooFarAwayClouds' = r.far
                /\ fatal' = (fatal \/ r.fatal)
                /\ \E outcome \in LinkOutcomes(r) :
                     /\ crashed' = (outcome = "nullDeref" \/ r.asserted)
                     /\ m_managedClouds' =
                            IF outcome = "nullDeref" THEN r.unlinked
                            ELSE IF r.asserted THEN r.clouds
                            ELSE ProcessClouds(r.clouds, TICKSPEED,
                                     fluidSystem, 1)
                /\ call' = [op |-> "Run", authoritative |-> isAuthoritative,
                            playerPos |-> playerPos,
                            fluidSystem |-> fluidSystem,
                            from |-> m_cloudGridCenter,
                            repositioned |-> r.repositioned,
                            recycled |-> r.recycled,
                            stray |->
                                {e \in DOMAIN m_managedClouds :
                                    MatchIndex(m_managedClouds[e].m_position,
                                        calculateGridPositions(r.center)) = 0},
                            resetAtRelocation |->
                                {e \in r.recycled : BuffersZero(r.unlinked[e])},
                            again |-> /\ call.op = "Run"
                                      /\ call.authoritative
                                      /\ call.playerPos = playerPos]
                /\ UNCHANGED << m_cloudTypes, nIdle >>
    /\ UNCHANGED << nAdd, nTake >>

\* The density the call found in its cell, 0 if it found no cell or threw.
Before(r, compound, worldPosition) ==
    IF r.hit # nullptr
          /\ ~r.threw
          /\ convertWorldToCloudLocal(m_managedClouds[r.hit].m_position,
                 worldPosition).ok
    THEN DensityAt(m_managedClouds, r.hit, compound, worldPosition)
    ELSE 0

IdleAfter(r) == IF r.clouds = m_managedClouds THEN nIdle + 1 ELSE nIdle

addCloud(compound, density, worldPosition) ==
    /\ Callable
    /\ \E r \in {System_addCloud(m_managedClouds, compound, density,
                    worldPosition)} :
           /\ m_managedClouds' = r.clouds
           /\ crashed' = r.threw
           /\ nIdle' = IdleAfter(r)
           /\ call' = [op |-> "addCloud", compound |-> compound,
                       density |-> density, worldPosition |-> worldPosition,
                       ret |-> r.ret, hit |-> r.hit,
                       before |-> Before(r, compound, worldPosition)]
    /\ nAdd' = nAdd + 1
    /\ UNCHANGED << m_cloudTypes, m_cloudGridCenter, m_tooFarAwayClouds,
                    fatal, nRun, nTake >>

takeCompound(compound, worldPosition, rate) ==
    /\ Callable
    /\ \E r \in {System_takeCompound(m_managedClouds, compound, worldPosition,
                    rate)} :
           /\ m_managedClouds' = r.clouds
           /\ crashed' = r.threw
           /\ nIdle' = IdleAfter(r)
           /\ call' = [op |-> "takeCompound", compound |-> compound,
                       rate |-> rate, worldPosition |-> worldPosition,
                       ret |-> r.ret, hit |-> r.hit,
                       before |-> Before(r, compound, worldPosition)]
    /\ nTake' = nTake + 1
    /\ UNCHANGED << m_cloudTypes, m_cloudGridCenter, m_tooFarAwayClouds,
                    fatal, nRun, nAdd >>

amountAvailable(compound, worldPosition, rate) ==
    /\ Callable
    /\ \E r \in {System_amountAvailable(m_managedClouds, compound,
                    worldPosition, rate)} :
           /\ m_managedClouds' = r.clouds
           /\ crashed' = r.threw
           /\ nIdle' = IdleAfter(r)
           /\ call' = [op |-> "amountAvailable", compound |-> compound,
                       rate |-> rate, worldPosition |-> worldPosition,
                       ret |-> r.ret, hit |-> r.hit,
                       before |-> Before(r, compound, worldPosition)]
    /\ UNCHANGED << m_cloudTypes, m_cloudGridCenter, m_tooFarAwayClouds,
                    fatal, nRun, nAdd, nTake >>

getAllAvailableAt(worldPosition) ==
    /\ Callable
    /\ \E r \in {System_getAllAvailableAt(m_managedClouds, worldPosition)} :
           /\ m_managedClouds' = r.clouds
           /\ crashed' = r.threw
           /\ nIdle' = IdleAfter(r)
           /\ call' = [op |-> "getAllAvailableAt",
                       worldPosition |-> worldPosition, ret |-> r.ret]
    /\ UNCHANGED << m_cloudTypes, m_cloudGridCenter, m_tooFarAwayClouds,
                    fatal, nRun, nAdd, nTake >>

(* ---------------- Spec: the window, its recentering, the ticks -------- *)
Register == \E n \in TypeCounts : registerCloudTypes(n)

Tick ==
    /\ nRun < MaxRuns
    /\ \E a \in BOOLEAN, p \in PlayerPositions, v \in Velocities : Run(a, p, v)

\* Density enters at two points, under the first registered compound.
GridPoints == { <<0, 0>>, <<-CLOUD_X_EXTENT, -CLOUD_Y_EXTENT - CLOUD_HEIGHT>> }

Add ==
    /\ nAdd < MaxAdds
    /\ \E p \in GridPoints : addCloud(1, 100 * DENSITY_UNIT, p)

Take ==
    /\ nTake < MaxTakes
    /\ \E p \in GridPoints : takeCompound(1, p, RATE_DEN)

Next == Register \/ Tick \/ Add \/ Take

Spec == Init /\ [][Next]_vars

(* ---------------- SurfaceSpec: the add / take / query surface --------- *)
SurfaceRegister == \E n \in TypeCounts : registerCloudTypes(n)

\* One tick that moves the window one extent to the right.
SurfaceTick ==
    /\ nRun < MaxSurfaceRuns
    /\ Run(TRUE, <<CLOUD_WIDTH, 0>>, <<0, 0>>)

SurfaceAdd ==
    /\ nAdd < MaxSurfaceAdds
    /\ \E c \in CompoundIds, d \in Amounts, p \in WorldPoints :
          addCloud(c, d, p)

SurfaceTake ==
    /\ nTake < MaxSurfaceTakes
    /\ \E c \in CompoundIds, p \in WorldPoints, r \in Rates :
          takeCompound(c, p, r)

SurfaceAmountAvailable ==
    \E c \in CompoundIds, p \in WorldPoints, r \in Rates :
        amountAvailable(c, p, r)

SurfaceGetAllAvailableAt == \E p \in WorldPoints : getAllAvailableAt(p)

SurfaceNext ==
    \/ SurfaceRegister
    \/ SurfaceTick
    \/ SurfaceAdd
    \/ SurfaceTake
    \/ SurfaceAmountAvailable
    \/ SurfaceGetAllAvailableAt

SurfaceSpec == Init /\ [][SurfaceNext]_vars

(* ------------- DiffuseSpec: one group, equal fields, one tick --------- *)
MaxDiffuseAdds == 3
MaxDiffuseRuns == 1

DiffuseRegister == registerCloudTypes(1)

\* The first two cells of the first column of the center tile and of the
\* tiles above and below it.
DiffusePoints ==
    {<<-CLOUD_WIDTH, dz * CLOUD_Y_EXTENT - CLOUD_HEIGHT + c * CLOUD_RESOLUTION>> :
        dz \in {-1, 0, 1}, c \in {0, 1}}

DiffuseAdd ==
    /\ nAdd < MaxDiffuseAdds
    /\ \E p \in DiffusePoints : addCloud(1, 100 * DENSITY_UNIT, p)

DiffuseTick ==
    /\ nRun < MaxDiffuseRuns
    /\ \E v \in Velocities : Run(TRUE, <<0, 0>>, v)

DiffuseNext == DiffuseRegister \/ DiffuseAdd \/ DiffuseTick

DiffuseSpec == Init /\ [][DiffuseNext]_vars

(* ------------- AdvectSpec: advect applied to single-cell fields ------- *)
\* The tiles as registerCloudTypes leaves them for one compound type.
RegisteredOnce ==
    doSpawnCycle(<<>>, <<Compound(1)>>, <<0, 0>>, <<>>, <<0, 0>>)

\* A field with amount in cell (x, y) and 0 elsewhere.
SingleCell(x, y, amount) ==
    [i \in Xs |-> [j \in Ys |-> IF i = x /\ j = y THEN amount ELSE 0]]

\* Amounts in the history cell: 100 and 2.5.
AdvectAmounts == {100 * DENSITY_UNIT, (5 * DENSITY_UNIT) \div 2}

\* Velocities of the advection, in VELOCITY_DEN-ths: none, half a cell per
\* pass in +X, a whole cell in +X, half a cell in -X, and diagonal ones.
AdvectVelocities == { <<0, 0>>, <<1, 0>>, <<2, 0>>, <<-1, 0>>, <<1, 1>>, <<1, -3>> }

\* The center tile (entity 1) holds a single-cell history field in slot 1;
\* its density buffer is empty or holds what an addCloud put there.
AdvectInit ==
    /\ m_cloudTypes = <<Compound(1)>>
    /\ \E x \in Xs, y \in Ys, amount \in AdvectAmounts, d \in {0, DENSITY_UNIT} :
          m_managedClouds =
              [RegisteredOnce.clouds EXCEPT
                  ![1].clouds[1].oldDensity = SingleCell(x, y, amount),
                  ![1].clouds[1].density = SingleCell(0, 0, d)]
    /\ m_cloudGridCenter = <<0, 0>>
    /\ m_tooFarAwayClouds = RegisteredOnce.far
    /\ fatal = FALSE
    /\ crashed = FALSE
    /\ call = NoCall
    /\ nRun = 0
    /\ nAdd = 0
    /\ nTake = 0
    /\ nIdle = 0

\* advect(cloud, slot, dt, fluidSystem, pos) as processCloud calls it on the
\* center tile.
AdvectStep ==
    /\ call = NoCall
    /\ \E v \in AdvectVelocities :
          /\ m_managedClouds' =
                 advect(m_managedClouds, 1, 1, TICKSPEED \div RENDER_TIME_DIVISOR,
                     v, m_managedClouds[1].m_position)
          /\ call' = [op |-> "advect", e |-> 1, slot |-> 1,
                      dt |-> TICKSPEED \div RENDER_TIME_DIVISOR,
                      fluidSystem |-> v]
    /\ UNCHANGED << m_cloudTypes, m_cloudGridCenter, m_tooFarAwayClouds, fatal,
                    crashed, nRun, nAdd, nTake, nIdle >>

AdvectNext == AdvectStep

AdvectSpec == AdvectInit /\ [][AdvectNext]_vars

(* ------------- ConvertSpec: convertWorldToCloudLocal on its own ------- *)
\* Tile centers: the positions of the first window and of a window three
\* extents away.
ConvertCenters ==
    {<<i * CLOUD_X_EXTENT, j * CLOUD_Y_EXTENT>> :
        i \in {-1, 0, 1, 3}, j \in {-1, 0, 1}}

\* Offsets of the position from the center of the tile: every whole point
\* from one unit left of / above the tile to its far corner plus a field.
ConvertOffsets ==
    ((-CLOUD_WIDTH - 1) .. (CLOUD_SIMULATION_WIDTH * CLOUD_RESOLUTION))
        \X ((-CLOUD_HEIGHT - 1) .. (CLOUD_SIMULATION_HEIGHT * CLOUD_RESOLUTION))

ConvertStep ==
    /\ call = NoCall
    /\ \E c \in ConvertCenters, o \in ConvertOffsets :
          call' = [op |-> "convertWorldToCloudLocal",
                   cloudPosition |-> c,
                   worldPosition |-> <<c[1] + o[1], c[2] + o[2]>>,
                   ret |-> convertWorldToCloudLocal(c,
                               <<c[1] + o[1], c[2] + o[2]>>)]
    /\ UNCHANGED << m_cloudTypes, m_managedClouds, m_cloudGridCenter,
                    m_tooFarAwayClouds, fatal, crashed, nRun, nAdd, nTake,
                    nIdle >>

ConvertNext == ConvertStep

ConvertSpec == Init /\ [][ConvertNext]_vars

(* ------------- SolverSpec: the solver steps on their own -------------- *)
\* Amounts in the history cell: those of AdvectAmounts and exactly 1.
SolverAmounts == AdvectAmounts \cup {DENSITY_UNIT}

\* The tiles the steps are applied to: every tile of the window.
SolverTiles == DOMAIN RegisteredOnce.clouds

\* One of the first two tiles holds a single-cell history field in slot 1;
\* its density buffer is empty or holds 1 in cell (0, 0).
SolverInit ==
    /\ m_cloudTypes = <<Compound(1)>>
    /\ \E e \in {1, 2}, x \in Xs, y \in Ys, amount \in SolverAmounts,
          d \in {0, DENSITY_UNIT} :
          m_managedClouds =
              [RegisteredOnce.clouds EXCEPT
                  ![e].clouds[1].oldDensity = SingleCell(x, y, amount),
                  ![e].clouds[1].density = SingleCell(0, 0, d)]
    /\ m_cloudGridCenter = <<0, 0>>
    /\ m_tooFarAwayClouds = RegisteredOnce.far
    /\ fatal = FALSE
    /\ crashed = FALSE
    /\ call = NoCall
    /\ nRun = 0
    /\ nAdd = 0
    /\ nTake = 0
    /\ nIdle = 0

SolverUnchanged ==
    UNCHANGED << m_cloudTypes, m_cloudGridCenter, m_tooFarAwayClouds, fatal,
                 crashed, nRun, nAdd, nTake, nIdle >>

\* diffuse(0.007f, cloud, slot, renderTime) as processCloud calls it.
SolverDiffuse ==
    /\ call = NoCall
    /\ \E e \in SolverTiles :
          /\ m_managedClouds' =
                 diffuse(DIFFUSE_RATE_NUM, m_managedClouds, e, 1,
                     TICKSPEED \div RENDER_TIME_DIVISOR)
          /\ call' = [op |-> "diffuse", e |-> e, slot |-> 1,
                      dt |-> TICKSPEED \div RENDER_TIME_DIVISOR]
    /\ SolverUnchanged

\* advect(cloud, slot, renderTime, fluidSystem, pos) as processCloud calls
\* it; the call record keeps the density buffer the tile had before.
SolverAdvect ==
    /\ call = NoCall
    /\ \E e \in SolverTiles, v \in AdvectVelocities :
          /\ m_managedClouds' =
                 advect(m_managedClouds, e, 1,
                     TICKSPEED \div RENDER_TIME_DIVISOR, v,
                     m_managedClouds[e].m_position)
          /\ call' = [op |-> "advect", e |-> e, slot |-> 1,
                      dt |-> TICKSPEED \div RENDER_TIME_DIVISOR,
                      fluidSystem |-> v,
                      before |-> m_managedClouds[e].clouds[1].density]
    /\ SolverUnchanged

\* processCloud(cloud, renderTime, fluidSystem) as Run calls it.
SolverProcess ==
    /\ call = NoCall
    /\ \E e \in SolverTiles, v \in AdvectVelocities :
          /\ m_managedClouds' = processCloud(m_managedClouds, e, TICKSPEED, v)
          /\ call' = [op |-> "processCloud", e |-> e,
                      renderTime |-> TICKSPEED, fluidSystem |-> v]
    /\ SolverUnchanged

\* addCloudDensity(cloud, slot, x, y, value) with a cell inside the field
\* or one step outside of it.
SolverDeposit ==
    /\ call = NoCall
    /\ \E e \in SolverTiles, x \in -1 .. CLOUD_SIMULATION_WIDTH,
          y \in -1 .. CLOUD_SIMULATION_HEIGHT :
          /\ m_managedClouds' =
                 addCloudDensity(m_managedClouds, e, 1, x, y, DENSITY_UNIT)
          /\ call' = [op |-> "addCloudDensity", e |-> e, slot |-> 1,
                      x |-> x, y |-> y, value |-> DENSITY_UNIT]
    /\ SolverUnchanged

SolverNext == SolverDiffuse \/ SolverAdvect \/ SolverProcess \/ SolverDeposit

SolverSpec == SolverInit /\ [][SolverNext]_vars

(* ------------- DecaySpec: add, tick, take, tick ----------------------- *)
MaxDecayAdds == 1
MaxDecayTakes == 1
MaxDecayRuns == 2

DecayRegister == registerCloudTypes(1)

\* 100 or 200 enter at one of the points of DiffusePoints.
DecayAdd ==
    /\ nAdd < MaxDecayAdds
    /\ \E d \in {100 * DENSITY_UNIT, 200 * DENSITY_UNIT}, p \in DiffusePoints :
          addCloud(1, d, p)

DecayTake ==
    /\ nTake < MaxDecayTakes
    /\ \E p \in DiffusePoints, r \in Rates : takeCompound(1, p, r)

\* The observer stays at the origin.
DecayTick ==
    /\ nRun < MaxDecayRuns
    /\ \E v \in Velocities : Run(TRUE, <<0, 0>>, v)

DecayNext == DecayRegister \/ DecayAdd \/ DecayTake \/ DecayTick

DecaySpec == Init /\ [][DecayNext]_vars

(* ====================================================================== *)
(* The claims                                                             *)
(* ====================================================================== *)
\* The groups: the id of the first compound of every CLOUDS_IN_ONE.
Groups ==
    {m_cloudTypes[i].id :
        i \in {j \in 1 .. Len(m_cloudTypes) : (j - 1) % CLOUDS_IN_ONE = 0}}

\* The 9 positions a window centered at center has to cover.
RequiredAround(center) ==
    {<<center[1] + i * CLOUD_X_EXTENT, center[2] + j * CLOUD_Y_EXTENT>> :
        i \in {-1, 0, 1}, j \in {-1, 0, 1}}

TilesOf(g) == {e \in DOMAIN m_managedClouds : m_managedClouds[e].clouds[1].id = g}

TilesAt(g, pos) == {e \in TilesOf(g) : m_managedClouds[e].m_position = pos}

\* The layout of a tile: where it is and what it is linked to.
Layout(cloud) ==
    << cloud.m_position, cloud.m_upperCloud, cloud.m_lowerCloud,
       cloud.m_leftCloud, cloud.m_rightCloud >>

\* C1: once the cloud types are registered, and after any ticks, there are
\* exactly ceil(N / 4) * 9 tiles, and each of the 9 required positions
\* around the grid center holds exactly one tile of every group.
C1_TileCountAndCover ==
    Registered =>
        /\ Cardinality(DOMAIN m_managedClouds)
               = ((Len(m_cloudTypes) + 3) \div 4) * 9
        /\ \A g \in Groups : \A pos \in RequiredAround(m_cloudGridCenter) :
               Cardinality(TilesAt(g, pos)) = 1

\* C1 witness: two groups, after a tick that moved the window.
C1_Witness ==
    /\ Len(m_cloudTypes) = MaxTypes
    /\ call.op = "Run" /\ call.authoritative /\ ~crashed
    /\ call.recycled # {}
    /\ m_cloudGridCenter # <<0, 0>>

\* World points probed for containment: every whole point of the window
\* and of one extent around it.
ProbePoints ==
    {<<m_cloudGridCenter[1] + dx, m_cloudGridCenter[2] + dz>> :
        dx \in (-2 * CLOUD_X_EXTENT - CLOUD_WIDTH)
                   .. (2 * CLOUD_X_EXTENT + CLOUD_WIDTH),
        dz \in (-2 * CLOUD_Y_EXTENT - CLOUD_HEIGHT)
                   .. (2 * CLOUD_Y_EXTENT + CLOUD_HEIGHT)}

Containing(g, p) ==
    {e \in TilesOf(g) : cloudContainsPosition(m_managedClouds[e].m_position, p)}

\* C2: no world point is contained by two tiles of one group.
C2_ContainmentPartition ==
    Registered =>
        \A g \in Groups : \A p \in ProbePoints :
            Cardinality(Containing(g, p)) <= 1

\* C2 witness: after a tick that moved the window, the point on the border
\* between the center tile and the tile right of it is in exactly one tile.
C2_Witness ==
    /\ call.op = "Run" /\ call.authoritative /\ ~crashed
    /\ call.recycled # {}
    /\ \A g \in Groups :
          Cardinality(Containing(g,
              <<m_cloudGridCenter[1] + CLOUD_WIDTH, m_cloudGridCenter[2]>>)) = 1

\* The state after an authoritative Run whose observer position snapped to
\* another grid center than the one the window had.
AfterMovingRun ==
    /\ call.op = "Run" /\ call.authoritative /\ ~crashed
    /\ calculateGridCenterForPlayerPos(call.playerPos) # call.from

\* C3 as stated: after a tick that moves the window, the grid center is
\* the snapped position, and every tile that was at no new required
\* position is at one now with all density and history cells 0.
C3_RelocatedZeroAfterTick ==
    AfterMovingRun =>
        /\ m_cloudGridCenter = calculateGridCenterForPlayerPos(call.playerPos)
        /\ \A e \in call.stray :
              /\ m_managedClouds[e].m_position
                     \in RequiredAround(m_cloudGridCenter)
              /\ BuffersZero(m_managedClouds[e])

\* C3 amended: after a tick that moves the window, the grid center is the
\* snapped position, and every tile that was at no new required position
\* is at one now and had all density and history cells set to 0 when it
\* was relocated, before the solver pass of the same tick.
C3_RelocatedZeroAtRelocation ==
    AfterMovingRun =>
        /\ m_cloudGridCenter = calculateGridCenterForPlayerPos(call.playerPos)
        /\ call.recycled = call.stray
        /\ \A e \in call.stray :
              /\ m_managedClouds[e].m_position
                     \in RequiredAround(m_cloudGridCenter)
              /\ e \in call.resetAtRelocation

\* C3 witness: the observer went from (0, 0) to (3E, 0), all 9 tiles of the
\* group were relocated, and density had been added before.
C3_Witness ==
    /\ AfterMovingRun
    /\ call.from = <<0, 0>>
    /\ call.playerPos = <<3 * CLOUD_X_EXTENT, 0>>
    /\ m_cloudGridCenter = <<3 * CLOUD_X_EXTENT, 0>>
    /\ Cardinality(call.stray) >= 9
    /\ nAdd > 0 /\ nIdle = 0

\* C4: a second authoritative Run in a row with the same observer position
\* repositions nothing: same grid center, no tile recycled, the same
\* positions and links.
C4_SecondTickKeepsLayout ==
    [][ ( /\ call.op = "Run" /\ call.authoritative
          /\ call'.op = "Run" /\ call'.authoritative
          /\ nRun' = nRun + 1
          /\ call'.playerPos = call.playerPos )
        => ( /\ m_cloudGridCenter' = m_cloudGridCenter
             /\ ~call'.repositioned
             /\ call'.recycled = {}
             /\ ~crashed'
             /\ DOMAIN m_managedClouds' = DOMAIN m_managedClouds
             /\ \A e \in DOMAIN m_managedClouds :
                   Layout(m_managedClouds'[e]) = Layout(m_managedClouds[e]) )
      ]_vars

\* C4 witness: the second of two such Runs, the first of which moved the
\* window.
C4_Witness ==
    /\ call.op = "Run" /\ call.authoritative /\ ~crashed
    /\ call.again
    /\ m_cloudGridCenter # <<0, 0>>

(* ------------------------- the call surface --------------------------- *)
\* The tiles of clouds that contain the point and handle the compound.
Holding(clouds, compound, p) ==
    {e \in DOMAIN clouds :
        /\ p[1] >= clouds[e].m_position[1] - CLOUD_WIDTH
        /\ p[1] < clouds[e].m_position[1] + CLOUD_WIDTH
        /\ p[2] >= clouds[e].m_position[2] - CLOUD_HEIGHT
        /\ p[2] < clouds[e].m_position[2] + CLOUD_HEIGHT
        /\ \E i \in Slots : clouds[e].clouds[i].id = compound}

\* The tiles of clouds that contain the point.
Covering(clouds, p) ==
    {e \in DOMAIN clouds :
        /\ p[1] >= clouds[e].m_position[1] - CLOUD_WIDTH
        /\ p[1] < clouds[e].m_position[1] + CLOUD_WIDTH
        /\ p[2] >= clouds[e].m_position[2] - CLOUD_HEIGHT
        /\ p[2] < clouds[e].m_position[2] + CLOUD_HEIGHT}

\* The cell of tile e the point lies in.
CellX(clouds, e, p) ==
    (p[1] - (clouds[e].m_position[1] - CLOUD_WIDTH)) \div CLOUD_RESOLUTION
CellY(clouds, e, p) ==
    (p[2] - (clouds[e].m_position[2] - CLOUD_HEIGHT)) \div CLOUD_RESOLUTION

SlotOf(clouds, e, compound) ==
    Min({i \in Slots : clouds[e].clouds[i].id = compound})

\* The density of the compound in the cell of tile e the point lies in.
Dens(clouds, e, compound, p) ==
    clouds[e].clouds[SlotOf(clouds, e, compound)]
        .density[CellX(clouds, e, p)][CellY(clouds, e, p)]

\* The state after addCloud for a registered compound at a point a tile
\* of its group contains.
AfterAddInTile ==
    /\ call.op = "addCloud"
    /\ call.compound \in RegisteredIds
    /\ Holding(m_managedClouds, call.compound, call.worldPosition) # {}

\* What amountAvailable(c, p, 1.0) returns in the current state.
AvailableNow ==
    System_amountAvailable(m_managedClouds, call.compound,
        call.worldPosition, RATE_DEN).ret

\* C5 as stated: such an addCloud returns true and amountAvailable(c, p,
\* 1.0) then returns the previous density of the cell plus the amount.
C5_AvailableIsSum ==
    AfterAddInTile =>
        /\ call.ret = TRUE
        /\ AvailableNow * DENSITY_UNIT = call.before + call.density

\* C5 amended: such an addCloud returns true and amountAvailable(c, p, 1.0)
\* then returns the previous density of the cell plus the amount, cut to a
\* whole number toward zero; on a fresh grid addCloud(id, 100, (0, 0))
\* makes it return 100.
C5_AvailableIsWholePartOfSum ==
    AfterAddInTile =>
        LET sum == call.before + call.density
            e == Min(Holding(m_managedClouds, call.compound, call.worldPosition))
        IN  /\ call.ret = TRUE
            /\ Dens(m_managedClouds, e, call.compound, call.worldPosition) = sum
            /\ IF sum >= 0
               THEN /\ AvailableNow * DENSITY_UNIT <= sum
                    /\ sum < (AvailableNow + 1) * DENSITY_UNIT
               ELSE /\ (AvailableNow - 1) * DENSITY_UNIT < sum
                    /\ sum <= AvailableNow * DENSITY_UNIT
            /\ ( /\ nAdd = 1 /\ nRun = 0 /\ nTake = 0
                 /\ call.density = 100 * DENSITY_UNIT
                 /\ call.worldPosition = <<0, 0>> ) => AvailableNow = 100

\* C5 witness: an amount was added to a cell that held density and the sum
\* is no whole number.
C5_Witness ==
    /\ AfterAddInTile
    /\ call.ret = TRUE
    /\ call.before # 0
    /\ call.before + call.density > DENSITY_UNIT
    /\ (call.before + call.density) % DENSITY_UNIT # 0

\* The state after a takeCompound that found its cell.
AfterTakeInTile ==
    /\ call.op = "takeCompound"
    /\ ~crashed
    /\ Holding(m_managedClouds, call.compound, call.worldPosition) # {}

TakenCellNow ==
    Dens(m_managedClouds,
         Min(Holding(m_managedClouds, call.compound, call.worldPosition)),
         call.compound, call.worldPosition)

\* C6: after any takeCompound the density of the cell is 0 or at least 1.
C6_NoFractionLeft ==
    AfterTakeInTile => (TakenCellNow = 0 \/ TakenCellNow >= DENSITY_UNIT)

\* C6 witness: the take left less than 1 in the cell, which was set to 0.
C6_Witness ==
    /\ AfterTakeInTile
    /\ call.before - call.ret * DENSITY_UNIT > 0
    /\ call.before - call.ret * DENSITY_UNIT < DENSITY_UNIT
    /\ TakenCellNow = 0

\* C7: for a density d >= 0 and a rate in [0, 1], takeCompound returns
\* floor(d * rate), leaves d - floor(d * rate) in the cell if that is at
\* least 1 and 0 otherwise, returns no more than d and changes nothing else.
C7_TakeFloor ==
    [][ ( /\ call'.op = "takeCompound"
          /\ nTake' = nTake + 1
          /\ Holding(m_managedClouds, call'.compound, call'.worldPosition) # {}
          /\ call'.rate >= 0 /\ call'.rate <= RATE_DEN
          /\ Dens(m_managedClouds,
                 Min(Holding(m_managedClouds, call'.compound,
                         call'.worldPosition)),
                 call'.compound, call'.worldPosition) >= 0 )
        => LET c == call'.compound
               p == call'.worldPosition
               e == Min(Holding(m_managedClouds, c, p))
               d == Dens(m_managedClouds, e, c, p)
               got == call'.ret
               rest == d - got * DENSITY_UNIT
           IN  /\ got * DENSITY_UNIT * RATE_DEN <= d * call'.rate
               /\ d * call'.rate < (got + 1) * DENSITY_UNIT * RATE_DEN
               /\ got * DENSITY_UNIT <= d
               /\ m_managedClouds' =
                     [m_managedClouds EXCEPT
                         ![e].clouds[SlotOf(m_managedClouds, e, c)]
                             .density[CellX(m_managedClouds, e, p)]
                                     [CellY(m_managedClouds, e, p)] =
                             IF rest >= DENSITY_UNIT THEN rest ELSE 0]
               /\ m_cloudGridCenter' = m_cloudGridCenter
      ]_vars

\* C7 witness: half of a density that is no whole number was taken.
C7_Witness ==
    /\ AfterTakeInTile
    /\ call.rate = RATE_DEN \div 2
    /\ call.before > DENSITY_UNIT
    /\ call.before % DENSITY_UNIT # 0
    /\ call.ret > 0
    /\ TakenCellNow = call.before - call.ret * DENSITY_UNIT

\* C8: when no tile contains the point and handles the compound, addCloud
\* returns false and takeCompound and amountAvailable return 0; when no
\* tile contains the point, getAllAvailableAt returns the empty list; no
\* tile changes and no error is raised.
C8_NotFound ==
    [][ ( \/ /\ call'.op \in {"addCloud", "takeCompound", "amountAvailable"}
             /\ Holding(m_managedClouds, call'.compound,
                    call'.worldPosition) = {}
          \/ /\ call'.op = "getAllAvailableAt"
             /\ Covering(m_managedClouds, call'.worldPosition) = {} )
        => ( /\ call'.op = "addCloud" => call'.ret = FALSE
             /\ call'.op \in {"takeCompound", "amountAvailable"}
                    => call'.ret = 0
             /\ call'.op = "getAllAvailableAt" => call'.ret = <<>>
             /\ m_managedClouds' = m_managedClouds
             /\ m_cloudGridCenter' = m_cloudGridCenter
             /\ crashed' = FALSE )
      ]_vars

\* C8 witness: a take of a compound that is not registered, at a point a
\* tile contains.
C8_Witness ==
    /\ call.op = "takeCompound"
    /\ call.compound \notin RegisteredIds \cup {NULL_COMPOUND}
    /\ Covering(m_managedClouds, call.worldPosition) # {}
    /\ call.ret = 0
    /\ ~crashed

\* C9: amountAvailable and getAllAvailableAt change no tile: positions,
\* links and both buffers of every slot are as before.
C9_QueriesReadOnly ==
    [][ call'.op \in {"amountAvailable", "getAllAvailableAt"}
        => /\ m_managedClouds' = m_managedClouds
           /\ m_cloudGridCenter' = m_cloudGridCenter
      ]_vars

\* C9 witness: amountAvailable found density.
C9_Witness ==
    /\ call.op = "amountAvailable"
    /\ call.ret > 0
    /\ Holding(m_managedClouds, call.compound, call.worldPosition) # {}

\* C10: getAllAvailableAt returns exactly one entry for every registered
\* compound whose density in the cell of the point is above 0, with that
\* density as the amount, and no other entry.
C10_AllAvailable ==
    call.op = "getAllAvailableAt" =>
        LET p == call.worldPosition
            ret == call.ret
            of(c) == {k \in 1 .. Len(ret) : ret[k][1] = c}
        IN  /\ \A k \in 1 .. Len(ret) :
                  ret[k][1] \in RegisteredIds /\ ret[k][2] > 0
            /\ \A c \in RegisteredIds :
                  LET on == Holding(m_managedClouds, c, p)
                      d == IF on = {} THEN 0
                           ELSE Dens(m_managedClouds, Min(on), c, p)
                  IN  IF d > 0
                      THEN /\ Cardinality(of(c)) = 1
                           /\ \A k \in of(c) : ret[k][2] = d
                      ELSE of(c) = {}

\* C10 witness: compounds of two groups are returned for one point.
C10_Witness ==
    /\ call.op = "getAllAvailableAt"
    /\ Len(call.ret) = 2
    /\ call.ret[1][1] <= CLOUDS_IN_ONE
    /\ call.ret[2][1] > CLOUDS_IN_ONE

(* --------------------------- the neighbour links ---------------------- *)
\* The window coordinate of tile e: its offset from the grid center in
\* whole extents.
WindowCoord(e) ==
    << (m_managedClouds[e].m_position[1] - m_cloudGridCenter[1])
           \div CLOUD_X_EXTENT,
       (m_managedClouds[e].m_position[2] - m_cloudGridCenter[2])
           \div CLOUD_Y_EXTENT >>

\* The tiles of the group of e that are (dx, dy) window steps from e.
StepFrom(e, dx, dy) ==
    {t \in DOMAIN m_managedClouds :
        /\ m_managedClouds[t].clouds[1].id = m_managedClouds[e].clouds[1].id
        /\ m_managedClouds[t].m_position =
               << m_managedClouds[e].m_position[1] + dx * CLOUD_X_EXTENT,
                  m_managedClouds[e].m_position[2] + dy * CLOUD_Y_EXTENT >>}

\* The links of tile e that are set.
LinkTargets(e) ==
    { m_managedClouds[e].m_upperCloud, m_managedClouds[e].m_lowerCloud,
      m_managedClouds[e].m_leftCloud, m_managedClouds[e].m_rightCloud }
        \ {nullptr}

\* The window is in place and the program runs.
Positioned == Registered /\ ~crashed

\* C11: after any repositioning every tile is linked upward to the tile of
\* its group one window row up, downward to the one a row down, to the left
\* to the one a column left and to the right to the one a column right,
\* wherever that coordinate is inside the window.
C11_LinksFollowWindow ==
    Positioned =>
        \A e \in DOMAIN m_managedClouds :
            /\ WindowCoord(e)[2] > -1 =>
                   StepFrom(e, 0, -1) = {m_managedClouds[e].m_upperCloud}
            /\ WindowCoord(e)[2] < 1 =>
                   StepFrom(e, 0, 1) = {m_managedClouds[e].m_lowerCloud}
            /\ WindowCoord(e)[1] > -1 =>
                   StepFrom(e, -1, 0) = {m_managedClouds[e].m_leftCloud}
            /\ WindowCoord(e)[1] < 1 =>
                   StepFrom(e, 1, 0) = {m_managedClouds[e].m_rightCloud}

\* C12: after any repositioning a tile on a window edge has no neighbour on
\* its outward side, and no link of any tile leads to a tile on the
\* opposite edge of the window or to a tile of another group.
C12_EdgesNullNoWrap ==
    Positioned =>
        \A e \in DOMAIN m_managedClouds :
            /\ WindowCoord(e)[1] = -1 => m_managedClouds[e].m_leftCloud = nullptr
            /\ WindowCoord(e)[1] = 1 => m_managedClouds[e].m_rightCloud = nullptr
            /\ WindowCoord(e)[2] = -1 => m_managedClouds[e].m_upperCloud = nullptr
            /\ WindowCoord(e)[2] = 1 => m_managedClouds[e].m_lowerCloud = nullptr
            /\ \A t \in LinkTargets(e) :
                  /\ t \in DOMAIN m_managedClouds
                  /\ m_managedClouds[t].clouds[1].id
                         = m_managedClouds[e].clouds[1].id
                  /\ \A k \in {1, 2} :
                        WindowCoord(e)[k] # 0 =>
                            WindowCoord(t)[k] # -WindowCoord(e)[k]

\* C12 witness: two groups after a tick that moved the window; a corner
\* tile of the second group has a link left, and it leads inward.
C12_Witness ==
    /\ Positioned
    /\ Len(m_cloudTypes) = MaxTypes
    /\ call.op = "Run" /\ call.authoritative /\ call.recycled # {}
    /\ \E e \in DOMAIN m_managedClouds :
          /\ m_managedClouds[e].clouds[1].id > CLOUDS_IN_ONE
          /\ WindowCoord(e) = <<-1, -1>>
          /\ LinkTargets(e) # {}

(* ------------------------------ recycling ----------------------------- *)
\* C13: no LOG_FATAL of the recycling is ever written: the stray list does
\* not overflow, every unfilled required position of a group finds a stray
\* tile of that group, and no stray is left when all positions are filled.
C13_NoRecyclingFatal ==
    /\ ~fatal
    /\ Len(m_tooFarAwayClouds) <= Cardinality(DOMAIN m_managedClouds)
    /\ \A k \in 1 .. Len(m_tooFarAwayClouds) : m_tooFarAwayClouds[k] = nullptr
    /\ (call.op = "Run" /\ call.authoritative) => call.recycled = call.stray

\* C13 witness: every tile of two groups was a stray and was recycled.
C13_Witness ==
    /\ call.op = "Run" /\ call.authoritative
    /\ Len(m_cloudTypes) = MaxTypes
    /\ call.stray = DOMAIN m_managedClouds
    /\ call.recycled = DOMAIN m_managedClouds
    /\ ~fatal

(* ------------------------------ the solver ---------------------------- *)
\* The total of a field.
SumField(f) ==
    LET upTo[k \in 0 .. CLOUD_SIMULATION_WIDTH * CLOUD_SIMULATION_HEIGHT] ==
            IF k = 0 THEN 0
            ELSE upTo[k - 1] + f[(k - 1) \div CLOUD_SIMULATION_HEIGHT]
                                [(k - 1) % CLOUD_SIMULATION_HEIGHT]
    IN  upTo[CLOUD_SIMULATION_WIDTH * CLOUD_SIMULATION_HEIGHT]

\* Tile e has its four neighbours and each of them holds, in the slot, the
\* density field e holds.
AmongEquals(clouds, e, slot) ==
    /\ clouds[e].m_upperCloud # nullptr
    /\ clouds[e].m_lowerCloud # nullptr
    /\ clouds[e].m_leftCloud # nullptr
    /\ clouds[e].m_rightCloud # nullptr
    /\ \A t \in { clouds[e].m_upperCloud, clouds[e].m_lowerCloud,
                  clouds[e].m_leftCloud, clouds[e].m_rightCloud } :
          clouds[t].clouds[slot].density = clouds[e].clouds[slot].density

\* C14: a diffusion pass over a tile whose four neighbours are present and
\* hold the same density field leaves the total unchanged: the history
\* buffer after the pass sums to what the density summed to before it.
\* (The pass of a tick writes the history buffer, which nothing else
\* writes before the tick ends.)
C14_DiffusionKeepsTotal ==
    [][ ( /\ call'.op = "Run" /\ call'.authoritative
          /\ nRun' = nRun + 1
          /\ ~crashed' /\ ~call'.repositioned )
        => \A e \in DOMAIN m_managedClouds :
              AmongEquals(m_managedClouds, e, 1) =>
                  SumField(m_managedClouds'[e].clouds[1].oldDensity)
                      = SumField(m_managedClouds[e].clouds[1].density)
      ]_vars

\* The cells of the history field of the advected tile that hold something.
AdvectedCells ==
    {c \in Xs \X Ys :
        m_managedClouds[call.e].clouds[call.slot].oldDensity[c[1]][c[2]] # 0}

\* The case of C15: the only nonzero history cell c holds 100, the velocity
\* is purely in +X and moves the content to a position whose X part ends in
\* one half, inside the clamp range; the row of c is inside the clamp range.
HalfCellMove(c) ==
    /\ call.op = "advect"
    /\ AdvectedCells = {c}
    /\ m_managedClouds[call.e].clouds[call.slot].oldDensity[c[1]][c[2]]
           = 100 * DENSITY_UNIT
    /\ call.fluidSystem[1] > 0 /\ call.fluidSystem[2] = 0
    /\ 2 * ((c[1] * VELOCITY_DEN + call.dt * call.fluidSystem[1]) % VELOCITY_DEN)
           = VELOCITY_DEN
    /\ 2 * (c[1] * VELOCITY_DEN + call.dt * call.fluidSystem[1])
           <= (2 * CLOUD_SIMULATION_WIDTH - 3) * VELOCITY_DEN
    /\ 2 * c[2] >= 1 /\ 2 * c[2] <= 2 * CLOUD_SIMULATION_HEIGHT - 3

\* C15: in that case advect puts 50 into cell (x0, y) and 50 into cell
\* (x0 + 1, y), x0 the whole part of the position, and nothing anywhere
\* else, in this tile or another.
C15_HalfSplit ==
    \A c \in Xs \X Ys :
        HalfCellMove(c) =>
            LET x0 == (c[1] * VELOCITY_DEN + call.dt * call.fluidSystem[1])
                          \div VELOCITY_DEN
            IN  /\ m_managedClouds[call.e].clouds[call.slot].density =
                       [i \in Xs |-> [j \in Ys |->
                           IF j = c[2] /\ i \in {x0, x0 + 1}
                           THEN 50 * DENSITY_UNIT ELSE 0]]
                /\ \A t \in DOMAIN m_managedClouds \ {call.e} :
                       m_managedClouds[t] = RegisteredOnce.clouds[t]
                /\ \A i \in Slots \ {call.slot} :
                       m_managedClouds[call.e].clouds[i]
                           = RegisteredOnce.clouds[call.e].clouds[i]

\* C15 witness: 100 in cell (1, 1) moved by half a cell in +X; the density
\* buffer held something before.
C15_Witness ==
    /\ HalfCellMove(<<1, 1>>)
    /\ m_managedClouds[1].clouds[1].density[1][1] = 50 * DENSITY_UNIT
    /\ m_managedClouds[1].clouds[1].density[2][1] = 50 * DENSITY_UNIT

(* ------------------------- world to cell ------------------------------ *)
\* The position is origin + (x, y) * resolution + e for a cell (x, y) of
\* the field and an e inside the cell.
InCellFrom(origin, x, y) ==
    /\ call.op = "convertWorldToCloudLocal"
    /\ \E ex \in 0 .. (CLOUD_RESOLUTION - 1), ey \in 0 .. (CLOUD_RESOLUTION - 1) :
          call.worldPosition =
              << origin[1] + x * CLOUD_RESOLUTION + ex,
                 origin[2] + y * CLOUD_RESOLUTION + ey >>

Returned(x, y) == call.ret = [ok |-> TRUE, x |-> x, y |-> y]

\* C16 as stated: for a tile center c and a cell (x, y) of the field,
\* converting c + (x, y) * resolution + e, e inside the cell, gives (x, y)
\* and does not fail.
C16_LeftInverseFromCenter ==
    \A x \in Xs, y \in Ys :
        InCellFrom(call.cloudPosition, x, y) => Returned(x, y)

\* C16 amended: for a tile center c and a cell (x, y) of the field,
\* converting (c - (CLOUD_WIDTH, CLOUD_HEIGHT)) + (x, y) * resolution + e,
\* e inside the cell, gives (x, y) and does not fail: the cells are counted
\* from the upper left corner of the tile, half an extent from its center.
C16_LeftInverseFromCorner ==
    \A x \in Xs, y \in Ys :
        InCellFrom(<< call.cloudPosition[1] - CLOUD_WIDTH,
                      call.cloudPosition[2] - CLOUD_HEIGHT >>, x, y)
            => Returned(x, y)

\* C16 witness: the last cell of a tile away from the origin, at the far
\* end of the cell.
C16_Witness ==
    /\ InCellFrom(<< call.cloudPosition[1] - CLOUD_WIDTH,
                     call.cloudPosition[2] - CLOUD_HEIGHT >>,
           CLOUD_SIMULATION_WIDTH - 1, CLOUD_SIMULATION_HEIGHT - 1)
    /\ call.cloudPosition = <<3 * CLOUD_X_EXTENT, -CLOUD_Y_EXTENT>>
    /\ call.worldPosition =
           << call.cloudPosition[1] + CLOUD_WIDTH - 1,
              call.cloudPosition[2] + CLOUD_HEIGHT - 1 >>
    /\ Returned(CLOUD_SIMULATION_WIDTH - 1, CLOUD_SIMULATION_HEIGHT - 1)


\* The slots of the managed tiles whose id is the empty sentinel.
SentinelSlots ==
    {es \in (DOMAIN m_managedClouds) \X Slots :
        m_managedClouds[es[1]].clouds[es[2]].id = NULL_COMPOUND}

\* C17: in every reachable state, after any add, take and tick calls with
\* any compound id, the empty sentinel id included, every slot whose id is
\* the empty sentinel has all its density and history cells at 0.
C17_SentinelSlotsEmpty ==
    \A es \in SentinelSlots :
        /\ m_managedClouds[es[1]].clouds[es[2]].density = ZeroField
        /\ m_managedClouds[es[1]].clouds[es[2]].oldDensity = ZeroField


\* C18: a Run on a world that is not authoritative returns at once: the
\* registered types, every tile (position, slots, densities, histories,
\* links), the window center and the stray list are what they were.
C18_NonAuthoritativeRunIdle ==
    [][ (call'.op = "Run" /\ ~call'.authoritative) =>
            UNCHANGED << m_cloudTypes, m_managedClouds, m_cloudGridCenter,
                         m_tooFarAwayClouds, fatal, crashed >> ]_vars

\* A non-authoritative Run has returned although some cell holds density
\* and its observer position asks for another window.
C18_Witness ==
    /\ Registered /\ ~crashed
    /\ call.op = "Run" /\ ~call.authoritative
    /\ CenterChanged(m_cloudGridCenter,
           calculateGridCenterForPlayerPos(call.playerPos))
    /\ \E e \in DOMAIN m_managedClouds, i \in Slots :
           m_managedClouds[e].clouds[i].density # ZeroField


\* The compound ids of the slots of a tile, in slot order.
SlotIds(cloud) == [i \in Slots |-> cloud.clouds[i].id]

\* C19: once the types are registered no call creates or destroys a tile:
\* the set of managed entities stays what it is and the four slot ids of
\* every tile stay what they are.
C19_TilesAndGroupsConstant ==
    [][ Registered =>
            /\ DOMAIN m_managedClouds' = DOMAIN m_managedClouds
            /\ \A e \in DOMAIN m_managedClouds :
                   SlotIds(m_managedClouds'[e]) = SlotIds(m_managedClouds[e])
      ]_vars

\* Density was added and taken, and an authoritative Run has then moved
\* tiles to a new window.
C19_Witness ==
    /\ Registered /\ ~crashed
    /\ nAdd > 0 /\ nTake > 0
    /\ call.op = "Run" /\ call.authoritative /\ call.recycled # {}


\* The populated slots of the tiles: pairs of entity and slot.
PopulatedSlots(clouds) ==
    {es \in (DOMAIN clouds) \X Slots :
        clouds[es[1]].clouds[es[2]].id # NULL_COMPOUND}

\* The solver steps of one tick as C20 states them: tile after tile, for
\* each populated slot of the tile one diffusion step and right after it
\* one advection step of the same tile and slot; nothing for an empty slot.
RECURSIVE SolverSchedule(_)
SolverSchedule(todo) ==
    IF todo = {} THEN << >>
    ELSE LET es == CHOOSE a \in todo :
                       \A b \in todo :
                           a[1] < b[1] \/ (a[1] = b[1] /\ a[2] <= b[2])
         IN  << <<"diffuse", es[1], es[2]>>, <<"advect", es[1], es[2]>> >>
                 \o SolverSchedule(todo \ {es})

\* One step of the schedule applied to the tiles.
SolverStep(clouds, step, dt, fluidSystem) ==
    IF step[1] = "diffuse"
    THEN diffuse(DIFFUSE_RATE_NUM, clouds, step[2], step[3], dt)
    ELSE advect(clouds, step[2], step[3], dt, fluidSystem,
                clouds[step[2]].m_position)

\* The steps of a schedule applied in order.
RECURSIVE RunSchedule(_, _, _, _)
RunSchedule(clouds, steps, dt, fluidSystem) ==
    IF steps = << >> \/ clouds = << >> THEN clouds
    ELSE RunSchedule(SolverStep(clouds, Head(steps), dt, fluidSystem),
                     Tail(steps), dt, fluidSystem)

\* C20: the tiles an authoritative Run leaves are the tiles of the
\* finished recentering and relinking with the solver steps applied after
\* it: per tile and populated slot exactly one diffusion step immediately
\* followed by one advection step of that tile and slot, no step for an
\* empty slot, no tile taken twice.
C20_RecenterThenDiffuseAdvect ==
    [][ (call'.op = "Run" /\ call'.authoritative /\ ~crashed') =>
            \E r \in {doSpawnCycle(m_managedClouds, m_cloudTypes,
                          m_cloudGridCenter, m_tooFarAwayClouds,
                          call'.playerPos)} :
                m_managedClouds' =
                    RunSchedule(r.clouds,
                        SolverSchedule(PopulatedSlots(r.clouds)),
                        TICKSPEED \div RENDER_TIME_DIVISOR,
                        call'.fluidSystem) ]_vars

\* An authoritative Run has moved the window and relinked the tiles while
\* a tile that stayed in the window held density, in a moving fluid and
\* with tiles that have empty slots.
C20_Witness ==
    /\ Registered /\ ~crashed
    /\ call.op = "Run" /\ call.authoritative
    /\ call.repositioned /\ call.recycled # {}
    /\ call.fluidSystem # <<0, 0>>
    /\ \E e \in DOMAIN m_managedClouds :
          /\ e \notin call.recycled
          /\ m_managedClouds[e].clouds[1].density # ZeroField
          /\ m_managedClouds[e].clouds[CLOUDS_IN_ONE].id = NULL_COMPOUND


(* ------------------------- the solver steps --------------------------- *)
\* The history field C21 states for a diffusion pass over tile e: every
\* cell from the history buffers as they are before the pass, the own
\* cell weighted by 1 - a and the four neighbours by a / 4, with
\* a = aNum / DIFFUSE_RATE_DEN.
SnapshotDiffusion(clouds, e, slot, aNum) ==
    [x \in Xs |-> [y \in Ys |->
        (clouds[e].clouds[slot].oldDensity[x][y] * (DIFFUSE_RATE_DEN - aNum) * 4
           + (upperDensity(clouds, clouds[e], clouds[e].clouds[slot].oldDensity,
                  slot, x, y)
              + lowerDensity(clouds, clouds[e], clouds[e].clouds[slot].oldDensity,
                    slot, x, y)
              + leftDensity(clouds, clouds[e], clouds[e].clouds[slot].oldDensity,
                    slot, x, y)
              + rightDensity(clouds, clouds[e], clouds[e].clouds[slot].oldDensity,
                    slot, x, y)) * aNum)
        \div (4 * DIFFUSE_RATE_DEN)]]

\* C21: a diffusion pass sets every history cell to old * (1 - a) + (up +
\* down + left + right) * a / 4 with old and the four neighbours taken from
\* the history buffer as it was before the pass, whatever the order of the
\* cells.
C21_DiffusionFromSnapshot ==
    [][ call'.op = "diffuse" =>
            m_managedClouds'[call'.e].clouds[call'.slot].oldDensity =
                SnapshotDiffusion(m_managedClouds, call'.e, call'.slot,
                    call'.dt * DIFFUSE_RATE_NUM) ]_vars


\* C22: a solver step on one tile (diffuse, advect, or processCloud, which
\* is both) leaves every other tile as it is, buffers included: the linked
\* tiles are only read.
C22_OtherTilesUntouched ==
    [][ call'.op \in {"diffuse", "advect", "processCloud"} =>
            \A t \in DOMAIN m_managedClouds \ {call'.e} :
                m_managedClouds'[t] = m_managedClouds[t] ]_vars

\* The last column of a tile with a right neighbour held more than 1 and
\* was advected in a fluid moving in +X.
C22_Witness ==
    /\ call.op = "advect"
    /\ call.fluidSystem[1] > 0
    /\ m_managedClouds[call.e].m_rightCloud # nullptr
    /\ \E y \in Ys :
          m_managedClouds[call.e].clouds[call.slot]
              .oldDensity[CLOUD_SIMULATION_WIDTH - 1][y] > DENSITY_UNIT
    /\ SumField(m_managedClouds[call.e].clouds[call.slot].density) > 0


\* The sum of the cells of a field that hold more than 1.
SumAboveOne(f) ==
    SumField([x \in Xs |-> [y \in Ys |->
        IF f[x][y] > DENSITY_UNIT THEN f[x][y] ELSE 0]])

\* C23: after an advection step of a tile slot the density buffer of the
\* tile sums to the sum of the history cells that hold more than 1; cells
\* holding 1 or less give nothing and what the density buffer held before
\* is gone.  (advect leaves the history buffer as it is.)
C23_AdvectionKeepsMass ==
    call.op = "advect" =>
        SumField(m_managedClouds[call.e].clouds[call.slot].density) =
            SumAboveOne(m_managedClouds[call.e].clouds[call.slot].oldDensity)

\* A tile whose density buffer held something and whose history holds one
\* cell above 1 has been advected in a fluid that moves along both axes.
C23_Witness ==
    /\ call.op = "advect"
    /\ call.fluidSystem[1] # 0 /\ call.fluidSystem[2] # 0
    /\ SumAboveOne(m_managedClouds[call.e].clouds[call.slot].oldDensity) > 0
    /\ call.before[0][0] > 0
    /\ m_managedClouds[call.e].clouds[call.slot].density[0][0] = 0
    /\ Cardinality({c \in Xs \X Ys :
           m_managedClouds[call.e].clouds[call.slot].density[c[1]][c[2]] > 0})
         = 4


(* ------------------------- repositioning ------------------------------ *)
\* C24: in a repositioning every tile whose center is one of the new
\* required positions keeps its position and the density and history
\* buffers of all its slots, as they are when the repositioning is done
\* and before the solver runs; only tiles at no required position are
\* reset.
C24_KeptTilesUntouched ==
    [][ (call'.op = "Run" /\ call'.authoritative /\ call'.repositioned) =>
            \E r \in {doSpawnCycle(m_managedClouds, m_cloudTypes,
                          m_cloudGridCenter, m_tooFarAwayClouds,
                          call'.playerPos)} :
                \A e \in DOMAIN m_managedClouds :
                    IF m_managedClouds[e].m_position \in RequiredAround(r.center)
                    THEN /\ e \notin r.recycled
                         /\ r.unlinked[e].m_position
                                = m_managedClouds[e].m_position
                         /\ r.unlinked[e].clouds = m_managedClouds[e].clouds
                    ELSE e \in r.recycled ]_vars

\* A repositioning by one extent in a still fluid: some tiles were moved,
\* and a tile that was kept holds density.
C24_Witness ==
    /\ Registered /\ ~crashed
    /\ call.op = "Run" /\ call.authoritative /\ call.repositioned
    /\ call.fluidSystem = <<0, 0>>
    /\ call.recycled # {} /\ call.recycled # DOMAIN m_managedClouds
    /\ \E e \in DOMAIN m_managedClouds \ call.recycled :
          SumField(m_managedClouds[e].clouds[1].density) > 0


\* C25: the links are symmetric: A's right neighbour is B exactly if B's
\* left neighbour is A, A's lower neighbour is B exactly if B's upper
\* neighbour is A; no tile is its own neighbour and no tile is two
\* different neighbours of one tile.
C25_LinksSymmetric ==
    Positioned =>
        \A a \in DOMAIN m_managedClouds :
            /\ \A b \in DOMAIN m_managedClouds :
                  /\ m_managedClouds[a].m_rightCloud = b
                         <=> m_managedClouds[b].m_leftCloud = a
                  /\ m_managedClouds[a].m_lowerCloud = b
                         <=> m_managedClouds[b].m_upperCloud = a
            /\ a \notin { m_managedClouds[a].m_upperCloud,
                          m_managedClouds[a].m_lowerCloud,
                          m_managedClouds[a].m_leftCloud,
                          m_managedClouds[a].m_rightCloud }
            /\ \A l \in { m_managedClouds[a].m_lowerCloud,
                          m_managedClouds[a].m_leftCloud,
                          m_managedClouds[a].m_rightCloud } \ {nullptr} :
                  l # m_managedClouds[a].m_upperCloud
            /\ \A l \in { m_managedClouds[a].m_leftCloud,
                          m_managedClouds[a].m_rightCloud } \ {nullptr} :
                  l # m_managedClouds[a].m_lowerCloud
            /\ m_managedClouds[a].m_leftCloud # nullptr =>
                  m_managedClouds[a].m_leftCloud # m_managedClouds[a].m_rightCloud


\* The positioning a call runs: that of registerCloudTypes with the
\* observer at the origin, that of an authoritative Run with its observer.
PositioningOf(types, playerPos) ==
    doSpawnCycle(m_managedClouds, types, m_cloudGridCenter,
        m_tooFarAwayClouds, playerPos)

\* C26: setUpCloudLinks looks up only window coordinates of {-1, 0, 1}^2:
\* no positioning inserts a key into the map while it links, and none
\* runs into a null tile.
C26_LinkLookupsInsideWindow ==
    [][ /\ call'.op = "registerCloudTypes" =>
              /\ PositioningOf(m_cloudTypes', <<0, 0>>).inserted = {}
              /\ ~crashed'
        /\ (call'.op = "Run" /\ call'.authoritative) =>
              /\ PositioningOf(m_cloudTypes, call'.playerPos).inserted = {}
              /\ ~crashed' ]_vars


\* C27: after an authoritative Run with observer position p the tile of
\* every group at the grid center contains p, also when p lies on a tile
\* boundary, at a positive or a negative half extent.
C27_CenterTileHoldsObserver ==
    (Positioned /\ call.op = "Run" /\ call.authoritative) =>
        \A e \in DOMAIN m_managedClouds :
            m_managedClouds[e].m_position = m_cloudGridCenter =>
                cloudContainsPosition(m_managedClouds[e].m_position,
                    call.playerPos)


(* ------------------------- ticks and totals --------------------------- *)
\* The live density of the compound summed over the tiles that hold it.
RECURSIVE TotalLiveFrom(_, _, _)
TotalLiveFrom(clouds, compound, e) ==
    IF e > Cardinality(DOMAIN clouds) THEN 0
    ELSE (IF handlesCompound(clouds[e], compound)
          THEN SumField(clouds[e].clouds[SlotOf(clouds, e, compound)].density)
          ELSE 0)
         + TotalLiveFrom(clouds, compound, e + 1)

TotalLive(clouds, compound) == TotalLiveFrom(clouds, compound, 1)

\* C28: a tick never increases the live density of a compound summed over
\* all its tiles; density that takeCompound removed does not come back
\* out of the history buffer.
C28_TickNeverAddsDensity ==
    [][ (call'.op = "Run" /\ call'.authoritative /\ ~crashed') =>
            TotalLive(m_managedClouds', 1) <= TotalLive(m_managedClouds, 1)
      ]_vars


(* ---------------------- sampling and deposits ------------------------- *)
\* C29: the world position at which advect samples the velocity for a
\* cell (x, y) of a tile lies in that cell of that tile: the tile contains
\* the position and convertWorldToCloudLocal maps it back to (x, y).
C29_SampleInsideItsCell ==
    call.op = "advect" =>
        \A x \in Xs, y \in Ys :
            m_managedClouds[call.e].clouds[call.slot].oldDensity[x][y]
                    > DENSITY_UNIT =>
                /\ cloudContainsPosition(m_managedClouds[call.e].m_position,
                       advectSamplePos(m_managedClouds[call.e].m_position,
                           x, y))
                /\ convertWorldToCloudLocal(
                       m_managedClouds[call.e].m_position,
                       advectSamplePos(m_managedClouds[call.e].m_position,
                           x, y))
                     = [ok |-> TRUE, x |-> x, y |-> y]


\* The tile a deposit at column x is handed to along the X axis.
DepositColumnTile(clouds, e, x) ==
    CASE x < 0 -> clouds[e].m_leftCloud
      [] x >= CLOUD_SIMULATION_WIDTH -> clouds[e].m_rightCloud
      [] OTHER -> e

\* The tile a deposit at (x, y) ends in: the upper or lower neighbour of
\* the tile the X axis gave, nullptr when a neighbour on the way is missing.
DepositTile(clouds, e, x, y) ==
    IF DepositColumnTile(clouds, e, x) = nullptr THEN nullptr
    ELSE CASE y < 0 -> clouds[DepositColumnTile(clouds, e, x)].m_upperCloud
           [] y >= CLOUD_SIMULATION_HEIGHT ->
                  clouds[DepositColumnTile(clouds, e, x)].m_lowerCloud
           [] OTHER -> DepositColumnTile(clouds, e, x)

\* The cell of that tile: an index below 0 wraps to the last one, an index
\* past the end to 0.
DepositIndex(c, size) == IF c < 0 THEN size - 1 ELSE IF c >= size THEN 0 ELSE c

\* C30: a deposit with x < 0 goes to the left neighbour at column dim - 1,
\* with x >= dim to the right neighbour at column 0, with y < 0 to the
\* upper neighbour of the tile the X axis gave at row dim - 1 and with
\* y >= dim to its lower neighbour at row 0; exactly that one cell grows by
\* the value.  When a neighbour on the way is null no buffer of any tile
\* changes.
C30_DepositRouting ==
    [][ call'.op = "addCloudDensity" =>
          LET t == DepositTile(m_managedClouds, call'.e, call'.x, call'.y)
              nx == DepositIndex(call'.x, CLOUD_SIMULATION_WIDTH)
              ny == DepositIndex(call'.y, CLOUD_SIMULATION_HEIGHT)
          IN  /\ \A o \in DOMAIN m_managedClouds \ {t} :
                    m_managedClouds'[o] = m_managedClouds[o]
              /\ t # nullptr =>
                    /\ m_managedClouds'[t].clouds[call'.slot].oldDensity
                         = m_managedClouds[t].clouds[call'.slot].oldDensity
                    /\ \A x \in Xs, y \in Ys :
                          m_managedClouds'[t].clouds[call'.slot].density[x][y]
                            = m_managedClouds[t].clouds[call'.slot]
                                  .density[x][y]
                              + (IF x = nx /\ y = ny THEN call'.value ELSE 0)
      ]_vars

\* C30 witness: a deposit past the right edge and above the upper edge has
\* been handed on twice, to the right neighbour and then to that tile's
\* upper neighbour, and has arrived in cell (0, dim - 1).
C30_Witness ==
    /\ call.op = "addCloudDensity"
    /\ call.x = CLOUD_SIMULATION_WIDTH /\ call.y = -1
    /\ m_managedClouds[call.e].m_rightCloud # nullptr
    /\ m_managedClouds[m_managedClouds[call.e].m_rightCloud].m_upperCloud
         # nullptr
    /\ m_managedClouds[m_managedClouds[call.e].m_rightCloud].m_upperCloud
         # m_managedClouds[call.e].m_upperCloud
    /\ m_managedClouds[
           m_managedClouds[m_managedClouds[call.e].m_rightCloud].m_upperCloud
       ].clouds[call.slot].density[0][CLOUD_SIMULATION_HEIGHT - 1]
         >= call.value

====
